---- MODULE Spec2Model ----
(***************************************************************************)
(* Invoice workflow of invoice_app_v0r3: the form handlers of InvoiceApp   *)
(* (app.py), the three-stage pipeline of WorkflowManager (workflow.py),    *)
(* the rule checker DataValidator (validator.py) and the flat record store *)
(* of DataManager (data_manager.py).                                       *)
(*                                                                         *)
(* Representation.  A Python str is a sequence of one-character strings,   *)
(* so that startswith, slicing, isdigit and the regular expressions are    *)
(* computed on the characters.  None is the empty sequence <<>>, which is  *)
(* also the empty str and the empty dict: the code only ever tests these   *)
(* with `not x`, which is true of all three.  A dict is a function whose   *)
(* DOMAIN is its key set, so d[k] on a missing key is a KeyError and       *)
(* d.get(k) is None.  Amounts are integers in fils (1/100 AED).  A message *)
(* built by an f-string is the sequence of its parts.  The timestamps the  *)
(* stages store next to their results (validated_at, generated_at,         *)
(* sent_at) are not read by any code and are not represented.  A value     *)
(* pandas.read_csv yields that is not a str (an int64, the float nan) is a *)
(* sequence that starts with a type tag.                                   *)
(***************************************************************************)
EXTENDS Integers, Sequences, FiniteSets, TLC

VARIABLES
    state,      \* st.session_state.state / InvoiceApp.state: the WorkflowState object
    store,      \* data/invoices.csv: the rows, in file order
    pc,         \* position of the handler in progress
    calls,      \* stages and collaborators invoked by the run in progress (or the last one)
    artifacts,  \* invoice PDF files written by the run in progress: path and amounts drawn
    outbox,     \* messages the mail transport accepted from the run in progress
    run0,       \* the run state as it was when run_workflow was entered
    validation_result,  \* what validate_workflow_state returned to the last handler
    last,       \* what the last handler reported to the user (st.error / st.success)
    clock       \* datetime.now(), in seconds

vars == <<state, store, pc, calls, artifacts, outbox, run0, validation_result, last, clock>>

None == <<>>

(***************************************************************************)
(* Characters and strings                                                  *)
(***************************************************************************)
DigitChars == <<"0", "1", "2", "3", "4", "5", "6", "7", "8", "9">>

Digits == {DigitChars[i] : i \in 1..10}

Letters ==
    {"a", "b", "c", "d", "e", "f", "g", "h", "i", "j", "k", "l", "m",
     "n", "o", "p", "q", "r", "s", "t", "u", "v", "w", "x", "y", "z",
     "A", "B", "C", "D", "E", "F", "G", "H", "I", "J", "K", "L", "M",
     "N", "O", "P", "Q", "R", "S", "T", "U", "V", "W", "X", "Y", "Z"}

DigitVal(c) == (CHOOSE i \in 1..10 : DigitChars[i] = c) - 1

\* int(s) for a str of decimal digits
RECURSIVE IntOf(_)
IntOf(s) == IF s = <<>> THEN 0
            ELSE 10 * IntOf(SubSeq(s, 1, Len(s) - 1)) + DigitVal(s[Len(s)])

\* str.startswith
StartsWith(s, p) == Len(s) >= Len(p) /\ SubSeq(s, 1, Len(p)) = p

\* s[n:]
SliceFrom(s, n) == SubSeq(s, n + 1, Len(s))

\* str.isdigit: non-empty and every character a digit
IsDigitStr(s) == s # <<>> /\ \A i \in 1..Len(s) : s[i] \in Digits

\* c in s
Contains(s, c) == \E i \in 1..Len(s) : s[i] = c

\* '%0<w>d' % n
Pad(n, w) == [i \in 1..w |-> DigitChars[((n \div (10 ^ (w - i))) % 10) + 1]]

\* re `$` matches at the end of the string and also before one final newline:
\* s without that newline
BeforeFinalNewline(s) ==
    IF s # <<>> /\ s[Len(s)] = "\n" THEN SubSeq(s, 1, Len(s) - 1) ELSE s

(***************************************************************************)
(* DataValidator: the format rules (validator.py)                          *)
(***************************************************************************)
S_VREB == <<"V", "R", "E", "B">>

\* body of r'^[a-zA-Z0-9._%+-]+@[a-zA-Z0-9.-]+\.[a-zA-Z]{2,}$'
EmailBody(s) ==
    \E i \in 1..Len(s), j \in 1..Len(s) :
        /\ i >= 2 /\ s[i] = "@"
        /\ j >= i + 2 /\ s[j] = "."
        /\ Len(s) - j >= 2
        /\ \A k \in 1..(i - 1) : s[k] \in Letters \cup Digits \cup {".", "_", "%", "+", "-"}
        /\ \A k \in (i + 1)..(j - 1) : s[k] \in Letters \cup Digits \cup {".", "-"}
        /\ \A k \in (j + 1)..Len(s) : s[k] \in Letters

validate_email(email) == EmailBody(email) \/ EmailBody(BeforeFinalNewline(email))

\* body of r'^\d{15}$'
VatBody(s) == Len(s) = 15 /\ \A i \in 1..15 : s[i] \in Digits

validate_vat_number(vat_number) ==
    VatBody(vat_number) \/ VatBody(BeforeFinalNewline(vat_number))

\* body of r'^VREB\d{4}$'
InvoiceNumberBody(s) ==
    Len(s) = 8 /\ SubSeq(s, 1, 4) = S_VREB /\ \A i \in 5..8 : s[i] \in Digits

\* faulty variant: the looser rule of the pipeline's validation stage, 'VREB'
\* and any digits
validate_invoice_number_anyDigits(invoice_number) ==
    StartsWith(invoice_number, S_VREB) /\ IsDigitStr(SliceFrom(invoice_number, 4))

validate_invoice_number(invoice_number) ==
    InvoiceNumberBody(invoice_number) \/ InvoiceNumberBody(BeforeFinalNewline(invoice_number))

IsLeap(y) == (y % 4 = 0 /\ y % 100 # 0) \/ y % 400 = 0

DaysIn(y, m) == IF m = 2 THEN (IF IsLeap(y) THEN 29 ELSE 28)
                ELSE IF m \in {4, 6, 9, 11} THEN 30 ELSE 31

\* datetime.strptime(s, fmt) succeeds, for a format of three numeric
\* directives joined by one separator character: first and second are the
\* 1-2 digit fields, or the year comes first (yearFirst), the year is 4 digits.
StrptimeOk(s, sep, yearFirst) ==
    \E i \in 1..Len(s), j \in 1..Len(s) :
        /\ i < j /\ s[i] = sep /\ s[j] = sep
        /\ LET a == SubSeq(s, 1, i - 1)
               b == SubSeq(s, i + 1, j - 1)
               c == SubSeq(s, j + 1, Len(s))
               yy == IF yearFirst THEN a ELSE c
               mm == b
               dd == IF yearFirst THEN c ELSE a
           IN  /\ IsDigitStr(yy) /\ Len(yy) = 4
               /\ IsDigitStr(mm) /\ Len(mm) \in 1..2
               /\ IsDigitStr(dd) /\ Len(dd) \in 1..2
               /\ IntOf(yy) >= 1
               /\ IntOf(mm) \in 1..12
               /\ IntOf(dd) >= 1 /\ IntOf(dd) <= DaysIn(IntOf(yy), IntOf(mm))

\* validate_date_format: strptime(date_str, '%d/%m/%Y') does not raise ValueError
validate_date_format(date_str) == StrptimeOk(date_str, "/", FALSE)

\* date.strftime('%Y-%m-%d')
strftime_Ymd(d) == Pad(d.y, 4) \o <<"-">> \o Pad(d.m, 2) \o <<"-">> \o Pad(d.d, 2)

\* date.strftime('%d/%m/%Y')
strftime_dmY(d) == Pad(d.d, 2) \o <<"/">> \o Pad(d.m, 2) \o <<"/">> \o Pad(d.y, 4)

(***************************************************************************)
(* Dict access                                                             *)
(***************************************************************************)
NumericFields == {"rental_price", "commission_rate", "tax_amount", "total_amount", "vat_rate"}

\* bool(d.get(k)): the key is present and its value is not '', 0, 0.0 or None
Truthy(d, k) ==
    /\ k \in DOMAIN d
    /\ IF k \in NumericFields THEN d[k] # 0
       ELSE d[k] # <<>> /\ d[k] # <<"<int64>", "0">>

\* d.update(e)
Update(d, e) == [k \in DOMAIN d \cup DOMAIN e |-> IF k \in DOMAIN e THEN e[k] ELSE d[k]]

(***************************************************************************)
(* DataValidator.validate_workflow_state (validator.py 41-121)             *)
(***************************************************************************)
required_customer_fields ==
    << [field |-> "invoice_number",          display |-> "Invoice number"],
       [field |-> "bill_to_party_name",      display |-> "Bill to party name"],
       [field |-> "bill_to_party_email",     display |-> "Bill to party email"],
       [field |-> "bill_to_party_address_1", display |-> "Bill to party address line 1"],
       [field |-> "bill_to_party_address_2", display |-> "Bill to party address line 2"],
       [field |-> "bill_to_party_trn",       display |-> "Bill to party TRN"],
       [field |-> "tenant_name",             display |-> "Tenant name"] >>

required_invoice_fields ==
    << [field |-> "invoice_date",    display |-> "Invoice date"],
       [field |-> "property_name",   display |-> "Property name"],
       [field |-> "rental_price",    display |-> "Rental price"],
       [field |-> "commission_rate", display |-> "Commission rate"],
       [field |-> "tax_amount",      display |-> "Tax amount"],
       [field |-> "total_amount",    display |-> "Total amount"] >>

RequiredError(f) == <<f.display, " is required">>

\* faulty variant: the loop stops at the first missing field
RequiredErrors_firstOnly(d, fields) ==
    LET missing == SelectSeq(fields, LAMBDA f : ~Truthy(d, f.field))
    IN  IF missing = <<>> THEN <<>> ELSE <<RequiredError(missing[1])>>

\* the loop `for field, display_name in fields.items(): if not d.get(field): errors.append(...)`
RequiredErrors(d, fields) ==
    LET missing == SelectSeq(fields, LAMBDA f : ~Truthy(d, f.field))
    IN  [i \in 1..Len(missing) |-> RequiredError(missing[i])]

InvoiceNumberFormatError == <<"Invalid invoice number format (should be VREB followed by 4 digits)">>
EmailFormatError == <<"Invalid email format">>
TrnFormatError == <<"Invalid TRN format (should be 15 digits)">>
DateFormatError == <<"Invalid invoice date format (should be DD/MM/YYYY)">>

\* `if d.get(k): if not check(d[k]): errors.append(msg)`, valid being check(d[k])
FormatErrors(d, k, valid, msg) ==
    IF Truthy(d, k) /\ ~valid THEN <<msg>> ELSE <<>>

\* the error list, or None when it is empty
validate_workflow_state(workflow_state_dict) ==
    LET customer == workflow_state_dict.customer
        invoice  == workflow_state_dict.invoice
        errors ==
            RequiredErrors(customer, required_customer_fields)
            \o FormatErrors(customer, "invoice_number",
                           validate_invoice_number(customer["invoice_number"]), InvoiceNumberFormatError)
            \o FormatErrors(customer, "bill_to_party_email",
                           validate_email(customer["bill_to_party_email"]), EmailFormatError)
            \o FormatErrors(customer, "bill_to_party_trn",
                           validate_vat_number(customer["bill_to_party_trn"]), TrnFormatError)
            \o RequiredErrors(invoice, required_invoice_fields)
            \o FormatErrors(invoice, "invoice_date",
                           validate_date_format(invoice["invoice_date"]), DateFormatError)
    IN  IF errors # <<>> THEN errors ELSE None

(***************************************************************************)
(* WorkflowManager (workflow.py)                                           *)
(***************************************************************************)
\* a stage's result: the run state it returns, or the exception it raised
Returned(ws) == [ws |-> ws, raised |-> None]
Raised(ws, e) == [ws |-> ws, raised |-> e]

KeyError(k) == <<"'", k, "'">>

workflow_required_fields ==
    << [field |-> "bill_to_party_name",      display |-> "Bill To Party Name"],
       [field |-> "bill_to_party_email",     display |-> "Bill To Party Email"],
       [field |-> "bill_to_party_address_1", display |-> "Bill To Party Address Line 1"],
       [field |-> "bill_to_party_address_2", display |-> "Bill To Party Address Line 2"],
       [field |-> "bill_to_party_trn",       display |-> "Bill To Party TRN"],
       [field |-> "tenant_name",             display |-> "Tenant Name"] >>

SetError(ws, e) == [ws EXCEPT !.error = e]

\* workflow.py 32-38: the invoice number format test of the validation stage
InvoiceNumberFormatStep(ws) ==
    IF ~StartsWith(ws.customer["invoice_number"], S_VREB)
    THEN <<"Invoice number must start with 'VREB'">>
    ELSE IF ~IsDigitStr(SliceFrom(ws.customer["invoice_number"], 4))
    THEN <<"Invoice number must be in format 'VREB####'">>
    ELSE None

\* workflow.py 60-67: the amount tests of the validation stage
AmountStep(ws) ==
    IF "rental_price" \notin DOMAIN ws.invoice THEN Raised(ws, KeyError("rental_price"))
    ELSE IF ws.invoice["rental_price"] <= 0
    THEN Returned(SetError(ws, <<"Rental price must be greater than 0">>))
    ELSE IF "commission_rate" \notin DOMAIN ws.invoice THEN Raised(ws, KeyError("commission_rate"))
    ELSE IF ws.invoice["commission_rate"] <= 0
    THEN Returned(SetError(ws, <<"Commission rate must be greater than 0">>))
    ELSE Returned([ws EXCEPT !.validation_status = [is_valid |-> TRUE]])

\* workflow.py 50-58: the required-field loop stops at the first field that is
\* missing (KeyError) or empty (error), then the '@' test
RequiredStep(ws) ==
    LET bad == {i \in 1..Len(workflow_required_fields) :
                    LET f == workflow_required_fields[i].field
                    IN  f \notin DOMAIN ws.customer \/ ws.customer[f] = <<>>}
    IN  IF bad # {}
        THEN LET i == CHOOSE i \in bad : \A j \in bad : i <= j
                 f == workflow_required_fields[i]
             IN  IF f.field \notin DOMAIN ws.customer
                 THEN Raised(ws, KeyError(f.field))
                 ELSE Returned(SetError(ws, <<f.display, " is required">>))
        ELSE IF ~Contains(ws.customer["bill_to_party_email"], "@")
        THEN Returned(SetError(ws, <<"Invalid email format">>))
        ELSE AmountStep(ws)

\* WorkflowManager.validate_step
validate_step(workflow_state) ==
    IF "invoice_number" \notin DOMAIN workflow_state.customer
    THEN Raised(workflow_state, KeyError("invoice_number"))
    ELSE IF workflow_state.customer["invoice_number"] = <<>>
    THEN Returned(SetError(workflow_state, <<"Invoice number is required">>))
    ELSE IF InvoiceNumberFormatStep(workflow_state) # None
    THEN Returned(SetError(workflow_state, InvoiceNumberFormatStep(workflow_state)))
    ELSE RequiredStep(workflow_state)

(***************************************************************************)
(* Configuration (config/invoice_config.py)                                *)
(***************************************************************************)
VAT_RATE_PERCENT == 5

TERMS == <<"Due on Receipt">>

INVOICE_PDF_DIR == <<"pdfs/invoices">>

S_Pending == <<"Pending">>

S_Generated == <<"Generated">>

(***************************************************************************)
(* InvoiceGenerator.generate_invoice (invoice_gen.py 35-247), as far as    *)
(* the pipeline sees it: the keys it reads, the file it writes, the path   *)
(* it returns.  io is the outcome of writing the file.                     *)
(***************************************************************************)
GeneratorReads ==
    << <<"customer", "invoice_number">>, <<"invoice", "invoice_date">>,
       <<"invoice", "total_amount">>, <<"customer", "bill_to_party_trn">>,
       <<"customer", "bill_to_party_name">>, <<"customer", "bill_to_party_address_1">>,
       <<"customer", "bill_to_party_address_2">>, <<"invoice", "property_name">>,
       <<"customer", "tenant_name">>, <<"invoice", "rental_price">>,
       <<"invoice", "commission_rate">>, <<"invoice", "tax_amount">> >>

\* f"{self.invoice_dir}/{invoice_number}.pdf"
InvoicePath(invoice_number) == INVOICE_PDF_DIR \o <<"/">> \o invoice_number \o <<".pdf">>

\* str(n) for n >= 0
RECURSIVE ToDigits(_)
ToDigits(n) == IF n < 10 THEN <<DigitChars[n + 1]>>
               ELSE ToDigits(n \div 10) \o <<DigitChars[(n % 10) + 1]>>

\* the ',' option of the format specification: groups of three digits
RECURSIVE Grouped(_)
Grouped(s) == IF Len(s) <= 3 THEN s
              ELSE Grouped(SubSeq(s, 1, Len(s) - 3)) \o <<",">> \o SubSeq(s, Len(s) - 2, Len(s))

\* f"{amount:,.2f}" for an amount of fils
TwoDecimals(fils) ==
    LET a == IF fils < 0 THEN -fils ELSE fils
    IN  (IF fils < 0 THEN <<"-">> ELSE <<>>)
        \o Grouped(ToDigits(a \div 100)) \o <<".">> \o Pad(a % 100, 2)

\* InvoiceGenerator.format_currency
format_currency(amount) == <<"A", "E", "D", " ">> \o TwoDecimals(amount) \o <<"/", "-">>

\* InvoiceGenerator.format_number
format_number(amount) == TwoDecimals(amount) \o <<"/", "-">>

\* the amounts generate_invoice draws: Balance Due (line 77), the item row
\* (148-151), SUB Total (161-162), TOTAL (171) and the tax summary
DrawnAmounts(workflow_state_dict) ==
    LET commission == workflow_state_dict.invoice["commission_rate"]
        tax == workflow_state_dict.invoice["tax_amount"]
        total == workflow_state_dict.invoice["total_amount"]
    IN  [balance_due |-> format_currency(total),
         rate |-> format_number(commission),
         tax |-> format_number(tax),
         amount |-> format_number(total),
         sub_total_tax |-> format_number(tax),
         sub_total |-> format_number(total),
         total |-> format_currency(total),
         taxable_amount |-> format_number(commission),
         tax_amount |-> format_number(tax),
         tax_sub_total |-> format_number(tax)]

IOError(path) == <<"[Errno 13] Permission denied">>

generate_invoice(workflow_state_dict, io) ==
    LET missing == {i \in 1..Len(GeneratorReads) :
                       GeneratorReads[i][2] \notin DOMAIN workflow_state_dict[GeneratorReads[i][1]]}
        filename == InvoicePath(workflow_state_dict.customer["invoice_number"])
    IN  IF missing # {}
        THEN [path |-> None,
              raised |-> KeyError(GeneratorReads[CHOOSE i \in missing : \A j \in missing : i <= j][2])]
        ELSE IF io = "fail"
        THEN [path |-> None, raised |-> IOError(filename)]
        ELSE [path |-> filename, raised |-> None]

\* faulty variant: the status is updated outside the try block, whether or not the
\* generator returned
generate_invoice_step_statusAlways(workflow_state, io) ==
    LET r == generate_invoice(workflow_state, io)
    IN  IF r.raised # None
        THEN [workflow_state EXCEPT
                !.error = <<"Invoice generation failed: ">> \o r.raised,
                !.invoice = Update(@, [status |-> S_Generated])]
        ELSE [workflow_state EXCEPT
                !.invoice_creation_status = [is_generated |-> TRUE, file_path |-> r.path],
                !.error = None,
                !.invoice = Update(@, [status |-> S_Generated])]

\* WorkflowManager.generate_invoice_step
generate_invoice_step(workflow_state, io) ==
    LET r == generate_invoice(workflow_state, io)
    IN  IF r.raised # None
        THEN SetError(workflow_state, <<"Invoice generation failed: ">> \o r.raised)
        ELSE [workflow_state EXCEPT
                !.invoice_creation_status = [is_generated |-> TRUE, file_path |-> r.path],
                !.error = None,
                !.invoice = Update(@, [status |-> S_Generated])]

\* the files on disk after generate_invoice
ArtifactsAfter(files, workflow_state, io) ==
    LET r == generate_invoice(workflow_state, io)
    IN  IF r.raised = None
        THEN files \cup {[path |-> r.path, amounts |-> DrawnAmounts(workflow_state)]}
        ELSE files

(***************************************************************************)
(* WorkflowManager.send_notification_step.  The notifier is the injected   *)
(* email_handler: send is what its send_invoice does, "sent" (returns      *)
(* True), "refused" (returns False) or "raise".                            *)
(***************************************************************************)
SendOutcomes == {"sent", "refused", "raise"}

TransportError == <<"Connection unexpectedly closed">>

\* the exception raised while the arguments of send_invoice are evaluated, or None
SendArgsError(workflow_state) ==
    IF "bill_to_party_email" \notin DOMAIN workflow_state.customer
    THEN KeyError("bill_to_party_email")
    ELSE IF workflow_state.invoice_creation_status = None
    THEN <<"'NoneType' object is not subscriptable">>
    ELSE None

\* faulty variant: a send that returns False is treated like one that raised
send_notification_step_strict(workflow_state, send) ==
    IF SendArgsError(workflow_state) # None
    THEN SetError(workflow_state, <<"Email notification failed: ">> \o SendArgsError(workflow_state))
    ELSE IF send # "sent"
    THEN SetError(workflow_state, <<"Email notification failed: ">> \o TransportError)
    ELSE [workflow_state EXCEPT
            !.email_notification_status =
                [is_sent |-> TRUE,
                 recipient |-> workflow_state.customer["bill_to_party_email"]]]

send_notification_step(workflow_state, send) ==
    IF SendArgsError(workflow_state) # None
    THEN SetError(workflow_state, <<"Email notification failed: ">> \o SendArgsError(workflow_state))
    ELSE IF send = "raise"
    THEN SetError(workflow_state, <<"Email notification failed: ">> \o TransportError)
    ELSE [workflow_state EXCEPT
            !.email_notification_status =
                [is_sent |-> (send = "sent"),
                 recipient |-> workflow_state.customer["bill_to_party_email"]]]

(***************************************************************************)
(* EmailHandler.send_invoice (email_handler.py 16-51).  env is what the    *)
(* call meets outside the program: whether the file at invoice_path can be *)
(* opened, whether the SMTP server accepts the login, whether it accepts   *)
(* the message.  The result is the value returned, the exception that      *)
(* leaves the call (None: the handler at lines 49-51 catches every         *)
(* Exception) and the message handed to the server.                        *)
(***************************************************************************)
\* the keys of workflow_state_dict the subject (line 22) and the body (24-30) read
MailReads ==
    << <<"invoice", "transaction_id">>, <<"customer", "cust_fname">>,
       <<"invoice", "currency">>, <<"invoice", "billed_amount">>,
       <<"invoice", "payment_due_date">> >>

MailEnvs == [file : BOOLEAN, login : BOOLEAN, transmit : BOOLEAN]

\* the exception raised inside the try block, or None
MailFailure(workflow_state_dict, env) ==
    LET missing == {i \in 1..Len(MailReads) :
                       MailReads[i][2] \notin DOMAIN workflow_state_dict[MailReads[i][1]]}
    IN  IF missing # {}
        THEN KeyError(MailReads[CHOOSE i \in missing : \A j \in missing : i <= j][2])
        ELSE IF ~env.file THEN <<"[Errno 2] No such file or directory">>
        ELSE IF ~env.login THEN <<"(535, b'5.7.8 Username and Password not accepted')">>
        ELSE IF ~env.transmit THEN TransportError
        ELSE None

\* the MIMEMultipart built at lines 19-40
MailMessage(recipient_email, workflow_state_dict, invoice_path) ==
    [to |-> recipient_email,
     subject |-> <<"Invoice #">> \o workflow_state_dict.invoice["transaction_id"]
                 \o <<" - Payment Due">>,
     body |-> <<"Dear ">> \o workflow_state_dict.customer["cust_fname"]
              \o <<",\n\nYour payment of ">> \o workflow_state_dict.invoice["currency"]
              \o <<" ">> \o workflow_state_dict.invoice["billed_amount"]
              \o <<" is due by ">> \o workflow_state_dict.invoice["payment_due_date"]
              \o <<".\nPlease do the payment at the earliest.\n\nBest regards,\nYour Company Name">>,
     attachment |-> invoice_path]

\* faulty variant: the attachment is opened outside the try block
send_invoice_opensOutsideTry(recipient_email, workflow_state_dict, invoice_path, env) ==
    IF MailFailure(workflow_state_dict, env) # None
    THEN [returned |-> FALSE,
          raised |-> IF MailFailure(workflow_state_dict, env) = <<"[Errno 2] No such file or directory">>
                     THEN MailFailure(workflow_state_dict, env) ELSE None,
          message |-> None]
    ELSE [returned |-> TRUE, raised |-> None,
          message |-> MailMessage(recipient_email, workflow_state_dict, invoice_path)]

send_invoice(recipient_email, workflow_state_dict, invoice_path, env) ==
    IF MailFailure(workflow_state_dict, env) # None
    THEN [returned |-> FALSE, raised |-> None, message |-> None]
    ELSE [returned |-> TRUE, raised |-> None,
          message |-> MailMessage(recipient_email, workflow_state_dict, invoice_path)]

(***************************************************************************)
(* DataManager (data_manager.py).  store is the text of data/invoices.csv: *)
(* one row per line, one cell per column.  The cells of the text columns   *)
(* are strs, those of the amount columns are numbers (a float survives     *)
(* to_csv / read_csv), those of the two timestamp columns are instants.    *)
(***************************************************************************)
CustomerKeys ==
    {"invoice_number", "bill_to_party_name", "bill_to_party_email", "bill_to_party_address_1",
     "bill_to_party_address_2", "bill_to_party_trn", "tenant_name"}

InvoiceColumns ==
    {"invoice_date", "property_name", "rental_price", "commission_rate", "tax_amount",
     "total_amount", "status"}

\* the columns whose cells the application writes as text
TextColumns ==
    CustomerKeys \cup {"invoice_date", "property_name", "status", "payment_date", "terms"}

\* numpy.float64('nan'): what read_csv yields for an empty cell
NaN == <<"<float nan>">>

\* numpy.int64: what read_csv yields for the cells of a column of decimal numerals
Int64(numeral) == <<"<int64>">> \o numeral

IsInt64(v) == v # <<>> /\ v[1] = "<int64>"

\* str(int(s)) for a str of decimal digits
RECURSIVE StripZeros(_)
StripZeros(s) == IF Len(s) > 1 /\ s[1] = "0" THEN StripZeros(Tail(s)) ELSE s

\* read_csv infers the dtype of a column from all of its cells: int64 when
\* every cell is a decimal numeral, object (str, nan for the empty cells) otherwise
ColumnIsInt(file, c) ==
    /\ file # <<>>
    /\ \A i \in 1..Len(file) : IsDigitStr(file[i][c])

ReadCell(file, i, c) ==
    IF c \notin TextColumns THEN file[i][c]
    ELSE IF file[i][c] = <<>> THEN NaN
    ELSE IF ColumnIsInt(file, c) THEN Int64(StripZeros(file[i][c]))
    ELSE file[i][c]

\* pd.read_csv(self.csv_file)
read_csv(file) ==
    [i \in 1..Len(file) |-> [c \in DOMAIN file[i] |-> ReadCell(file, i, c)]]

\* the text to_csv writes for a cell
CsvText(v) == IF v = NaN THEN <<>> ELSE IF IsInt64(v) THEN Tail(v) ELSE v

\* df.to_csv(self.csv_file, index=False)
to_csv(df) ==
    [i \in 1..Len(df) |->
        [c \in DOMAIN df[i] |-> IF c \in TextColumns THEN CsvText(df[i][c]) ELSE df[i][c]]]

\* data_manager.py 112-134: the row built from the run state
RecordOf(workflow_state_dict, now) ==
    [k \in CustomerKeys |-> workflow_state_dict.customer[k]]
    @@ [k \in InvoiceColumns |-> workflow_state_dict.invoice[k]]
    @@ [payment_date |-> IF "payment_date" \in DOMAIN workflow_state_dict.invoice
                         THEN workflow_state_dict.invoice["payment_date"] ELSE <<>>,
        terms |-> TERMS,
        vat_rate |-> VAT_RATE_PERCENT,
        created_at |-> now,
        updated_at |-> now]

\* DataManager.create_workflow_state, and the WorkflowState get_invoice builds
create_workflow_state(record) ==
    [customer |-> [k \in CustomerKeys |-> record[k]],
     invoice |-> [k \in InvoiceColumns \cup {"payment_date", "terms", "vat_rate"} |-> record[k]],
     completed |-> TRUE]

\* df['invoice_number'] == invoice_number
RowsOf(df, invoice_number) == {i \in 1..Len(df) : df[i].invoice_number = invoice_number}

\* data_manager.py 136-140: the record replaces every row of that invoice
\* number and updated_at is set once more, or the record is appended
Upsert(df, record, now) ==
    IF RowsOf(df, record.invoice_number) # {}
    THEN [i \in 1..Len(df) |->
            IF i \in RowsOf(df, record.invoice_number)
            THEN [record EXCEPT !.updated_at = now] ELSE df[i]]
    ELSE Append(df, record)

\* data_manager.py 137 assigns a dict to the rows a boolean mask selects.
\* pandas turns the dict into a Series and aligns it: with the columns
\* ("aligned", the row is overwritten) or, where it aligns a Series with the
\* labels of the selected rows, the assignment fails with a ValueError
\* ("raise").  Which of the two depends on the pandas installed.
LocAssignOutcomes == {"aligned", "raise"}

LocAssignError == <<"Must have equal len keys and value when setting with an iterable">>

\* DataManager.save_record: the file written and the state returned, or the
\* exception raised (io = "fail": the file cannot be read or written)
save_record(file, workflow_state_dict, io, loc, now) ==
    LET df == read_csv(file)
        record == RecordOf(workflow_state_dict, now)
    IN  IF io = "fail"
        THEN [df |-> file, result |-> None,
              raised |-> <<"Error saving record: ">> \o IOError(<<"data/invoices.csv">>)]
        ELSE IF RowsOf(df, record.invoice_number) # {} /\ loc = "raise"
        THEN [df |-> file, result |-> None,
              raised |-> <<"Error saving record: ">> \o LocAssignError]
        ELSE [df |-> to_csv(Upsert(df, record, now)),
              result |-> create_workflow_state(record),
              raised |-> None]

\* DataManager.get_invoice: the last row of that invoice number as a run state, or None
get_invoice(file, invoice_number) ==
    LET df == read_csv(file)
        hits == RowsOf(df, invoice_number)
    IN  IF hits = {} THEN None
        ELSE create_workflow_state(df[CHOOSE i \in hits : \A j \in hits : j <= i])

\* DataManager.update_invoice_status
update_invoice_status(file, invoice_number, status, now) ==
    LET df == read_csv(file)
    IN  to_csv([i \in 1..Len(df) |->
                  IF i \in RowsOf(df, invoice_number)
                  THEN [df[i] EXCEPT !.status = status, !.updated_at = now]
                  ELSE df[i]])

(***************************************************************************)
(* InvoiceApp (app.py)                                                     *)
(***************************************************************************)
EmptyCustomer == [k \in CustomerKeys |-> <<>>]

\* app.py 31-51 and 182-202: the WorkflowState the application starts from
\* and resets to (invoice_date is today's date at start, '' after a reset)
NewState(invoice_date) ==
    [customer |-> EmptyCustomer,
     invoice |-> [invoice_date |-> invoice_date, property_name |-> <<>>, rental_price |-> 0,
                  commission_rate |-> 0, tax_amount |-> 0, total_amount |-> 0,
                  status |-> S_Pending, payment_date |-> <<>>],
     validation_status |-> None,
     invoice_creation_status |-> None,
     email_notification_status |-> None,
     error |-> None,
     completed |-> FALSE]

\* app.py 316-321: the VAT and total fields of the form
FormTax(commission_rate) ==
    IF commission_rate > 0 THEN (commission_rate * VAT_RATE_PERCENT) \div 100 ELSE 0

\* app.py 334-348: the keyword arguments the Submit button passes
FormKwargs(w) ==
    [k \in CustomerKeys |-> w[k]]
    @@ [property_name |-> w.property_name,
        rental_price |-> w.rental_price,
        commission_rate |-> w.commission_rate,
        tax_amount |-> FormTax(w.commission_rate),
        total_amount |-> w.commission_rate + FormTax(w.commission_rate),
        invoice_date |-> strftime_Ymd(w.invoice_date)]

\* app.py 121-141: the record of the state after the two update() calls
Submitted(st, kwargs) ==
    [st EXCEPT
        !.customer = Update(@, [k \in CustomerKeys |-> kwargs[k]]),
        !.invoice = Update(@,
            [k \in InvoiceColumns \ {"status"} |-> kwargs[k]]
            @@ [status |-> S_Pending,
                payment_date |-> IF "payment_date" \in DOMAIN kwargs
                                 THEN kwargs["payment_date"] ELSE <<>>])]

\* app.py 150-153: the saved record copied back into the state
Saved(st, updated_state) ==
    [st EXCEPT
        !.customer = Update(@, updated_state.customer),
        !.invoice = Update(@, updated_state.invoice),
        !.completed = updated_state.completed]

(***************************************************************************)
(* Inputs: what the user types into the form, and the outcomes of the      *)
(* file system and of the mail transport.                                  *)
(***************************************************************************)
N_1234 == <<"V", "R", "E", "B", "1", "2", "3", "4">>
N_0002 == <<"V", "R", "E", "B", "0", "0", "0", "2">>
N_1 == <<"V", "R", "E", "B", "1">>
N_12345 == <<"V", "R", "E", "B", "1", "2", "3", "4", "5">>
N_12x4 == <<"V", "R", "E", "B", "1", "2", "x", "4">>
N_prefix == <<"V", "R", "E", "B">>
N_other == <<"I", "N", "V", "1", "2", "3", "4">>

E_good == <<"a", "@", "b", ".", "c", "o">>
E_nodot == <<"a", "@", "b">>
E_noat == <<"a", "b", ".", "c", "o">>

T_good == <<"1", "0", "0", "0", "0", "0", "0", "0", "0", "0", "0", "0", "0", "0", "3">>
T_short == <<"1", "2", "3">>

Dates == {[y |-> 2024, m |-> 1, d |-> 15]}

BaseInput ==
    [invoice_number |-> N_1234,
     bill_to_party_name |-> <<"Acme">>,
     bill_to_party_email |-> E_good,
     bill_to_party_address_1 |-> <<"Tower 1">>,
     bill_to_party_address_2 |-> <<"Dubai">>,
     bill_to_party_trn |-> T_good,
     tenant_name |-> <<"Tenant">>,
     property_name |-> <<"Villa">>,
     rental_price |-> 12000000,
     commission_rate |-> 100000,
     invoice_date |-> [y |-> 2024, m |-> 1, d |-> 15]]

TextFields == {"bill_to_party_name", "property_name"}

\* the widget values: the base entry with one field changed
FormInputs ==
    {BaseInput}
    \cup {[BaseInput EXCEPT !.invoice_number = v] :
            v \in {<<>>, N_1, N_other}}
    \cup {[BaseInput EXCEPT ![f] = <<>>] : f \in TextFields}
    \cup {[BaseInput EXCEPT !.rental_price = v] : v \in {0}}
    \cup {[BaseInput EXCEPT !.commission_rate = v] : v \in {0}}

\* handle_submit as the form calls it
FormSubmissions == {FormKwargs(w) : w \in FormInputs}

\* handle_submit called with the date in the validator's format
DirectSubmissions ==
    {[FormKwargs(w) EXCEPT !.invoice_date = strftime_dmY(w.invoice_date)] : w \in FormInputs}

SubmitKwargs == FormSubmissions \cup DirectSubmissions

SearchNumbers == {w.invoice_number : w \in FormInputs} \ {<<>>}

IoOutcomes == {"ok", "fail"}

Report(op, result, detail) == [op |-> op, result |-> result]

(***************************************************************************)
(* The application                                                         *)
(***************************************************************************)
Init ==
    /\ state \in {NewState(strftime_Ymd(today)) : today \in Dates}
    /\ store = <<>>
    /\ pc = "idle"
    /\ calls = <<>>
    /\ artifacts = {}
    /\ outbox = {}
    /\ run0 = None
    /\ validation_result = None
    /\ last = Report("init", "ok", <<>>)
    /\ clock = 0

\* InvoiceApp.handle_submit
HandleSubmit ==
    /\ pc = "idle"
    /\ \E kwargs \in SubmitKwargs :
        \E st1 \in {Submitted(state, kwargs)} :
        \E errors \in {validate_workflow_state(st1)} :
            /\ validation_result' = errors
            /\ IF errors # None
               THEN /\ state' = st1
                    /\ store' = store
                    /\ last' = Report("submit", "invalid", errors)
               ELSE \E io \in IoOutcomes, loc \in LocAssignOutcomes :
                    \E r \in {save_record(store, st1, io, loc, clock)} :
                        IF r.raised # None
                        THEN /\ state' = st1
                             /\ store' = store
                             /\ last' = Report("submit", "failed", <<"Submission failed: ">> \o r.raised)
                        ELSE /\ state' = Saved(st1, r.result)
                             /\ store' = r.df
                             /\ last' = Report("submit", "saved", <<"Record saved successfully">>)
    /\ UNCHANGED <<pc, calls, artifacts, outbox, run0, clock>>

\* the Search button (app.py 249-253) and InvoiceApp.search_customer
SearchCustomer ==
    /\ pc = "idle"
    /\ \E invoice_number \in SearchNumbers, io \in IoOutcomes :
        LET result == get_invoice(store, invoice_number)
        IN  IF io = "fail"
            THEN /\ state' = state
                 /\ last' = Report("search", "failed", <<"Search failed: ">> \o IOError(<<"data/invoices.csv">>))
            ELSE IF result # None
            THEN /\ state' = [state EXCEPT !.customer = Update(@, result.customer),
                                           !.invoice = Update(@, result.invoice)]
                 /\ last' = Report("search", "found", <<>>)
            ELSE /\ state' = state
                 /\ last' = Report("search", "missing", <<"Invoice not found">>)
    /\ validation_result' = None
    /\ UNCHANGED <<store, pc, calls, artifacts, outbox, run0, clock>>

\* InvoiceApp.reset_state
ResetState ==
    /\ pc = "idle"
    /\ state' = NewState(<<>>)
    /\ last' = Report("reset", "ok", <<>>)
    /\ validation_result' = None
    /\ UNCHANGED <<store, pc, calls, artifacts, outbox, run0, clock>>

\* InvoiceApp.handle_generate_invoice up to the call of run_workflow
HandleGenerateInvoice ==
    /\ pc = "idle"
    /\ IF state.customer["invoice_number"] = <<>>
       THEN /\ last' = Report("generate", "refused", <<"Please submit record first">>)
            /\ UNCHANGED <<pc, run0, calls>>
       ELSE /\ pc' = "validate"
            /\ run0' = state
            /\ calls' = <<>>
            /\ last' = Report("generate", "running", <<>>)
    /\ validation_result' = None
    /\ UNCHANGED <<state, store, artifacts, outbox, clock>>

Call(name, result) == [name |-> name, result |-> result]

\* faulty variant: the handler stores the exception text without the stage prefix
WorkflowExecutionFailed_noPrefix(ws, e) == SetError(ws, e)

\* workflow.py 142-144: the handler of run_workflow for an exception a stage lets out
WorkflowExecutionFailed(ws, e) == SetError(ws, <<"Workflow execution failed: ">> \o e)

\* faulty variant: the comparison with the exempted message is inverted
HaltsAfterValidate_inverted(ws) == ws.error # None /\ ws.error = <<"Duplicate customer ID">>

\* workflow.py 122: the test after the validation stage
HaltsAfterValidate(ws) == ws.error # None /\ ws.error # <<"Duplicate customer ID">>

\* run_workflow, lines 119-123 and the handler of 142-144 for this stage
ValidateStep ==
    /\ pc = "validate"
    /\ LET r == validate_step(state)
       IN  IF r.raised # None
           THEN /\ state' = WorkflowExecutionFailed(state, r.raised)
                /\ pc' = "return"
                /\ calls' = Append(calls, Call("validate_step", "raised"))
           ELSE /\ state' = r.ws
                /\ pc' = IF HaltsAfterValidate(r.ws) THEN "return" ELSE "generate"
                /\ calls' = Append(calls, Call("validate_step", "returned"))
    /\ UNCHANGED <<store, artifacts, outbox, run0, validation_result, last, clock>>

\* faulty variant: the generation stage also records the new status in the file
GenerateStep_updatesStatus ==
    /\ pc = "generate"
    /\ \E io \in IoOutcomes :
        /\ state' = generate_invoice_step(state, io)
        /\ artifacts' = ArtifactsAfter(artifacts, state, io)
        /\ calls' = Append(calls, Call("generate_invoice",
                        IF generate_invoice(state, io).raised = None THEN "returned" ELSE "raised"))
    /\ pc' = IF state'.error # None THEN "return" ELSE "notify"
    /\ store' = IF state'.error # None THEN store
                ELSE update_invoice_status(store, state.customer["invoice_number"], S_Generated, clock)
    /\ UNCHANGED <<outbox, run0, validation_result, last, clock>>

\* run_workflow, lines 125-128
GenerateStep ==
    /\ pc = "generate"
    /\ \E io \in IoOutcomes :
        /\ state' = generate_invoice_step(state, io)
        /\ artifacts' = ArtifactsAfter(artifacts, state, io)
        /\ calls' = Append(calls, Call("generate_invoice",
                        IF generate_invoice(state, io).raised = None THEN "returned" ELSE "raised"))
    /\ pc' = IF state'.error # None THEN "return" ELSE "notify"
    /\ UNCHANGED <<store, outbox, run0, validation_result, last, clock>>

\* workflow.py 139: Done
MarkCompleted(ws) == [ws EXCEPT !.completed = TRUE]

\* faulty variant: the test of error after the notification stage is missing
Finish_unconditional(ws) == [ws EXCEPT !.completed = TRUE]

\* workflow.py 132-140: return the state as it is when the notification stage
\* set error, mark it completed otherwise
Finish(ws) == IF ws.error # None THEN ws ELSE MarkCompleted(ws)

\* run_workflow, lines 130-140
NotifyStep ==
    /\ pc = "notify"
    /\ \E send \in SendOutcomes :
        LET ws == send_notification_step(state, send)
        IN  /\ state' = Finish(ws)
            /\ outbox' = IF SendArgsError(state) = None /\ send = "sent"
                         THEN outbox \cup {[to |-> state.customer["bill_to_party_email"],
                                            attachment |-> state.invoice_creation_status.file_path]}
                         ELSE outbox
            /\ calls' = IF SendArgsError(state) = None
                         THEN Append(calls, Call("send_invoice",
                                CASE send = "sent" -> "True" [] send = "refused" -> "False"
                                  [] OTHER -> "raised"))
                         ELSE calls
    /\ pc' = "return"
    /\ UNCHANGED <<store, artifacts, run0, validation_result, last, clock>>

\* InvoiceApp.handle_generate_invoice after run_workflow returned (app.py 172-177)
ReturnStep ==
    /\ pc = "return"
    /\ pc' = "idle"
    /\ last' = IF state.error # None
               THEN Report("generate", "error", state.error)
               ELSE Report("generate", "generated", <<"Invoice generated successfully">>)
    /\ run0' = None
    /\ calls' = <<>>
    /\ artifacts' = {}
    /\ outbox' = {}
    /\ UNCHANGED <<state, store, validation_result, clock>>

Next ==
    \/ HandleSubmit
    \/ SearchCustomer
    \/ ResetState
    \/ HandleGenerateInvoice
    \/ ValidateStep
    \/ GenerateStep
    \/ NotifyStep
    \/ ReturnStep

Spec == Init /\ [][Next]_vars

(***************************************************************************)
(* WorkflowManager.run_workflow on its own: the caller passes any run      *)
(* state, with whatever an earlier run or handler left in it.              *)
(***************************************************************************)
MaxDigits == 5

\* 'VREB' followed by k digits
NumberWithDigits(k) == S_VREB \o [i \in 1..k |-> DigitChars[(i % 10) + 1]]

BaseRecord == Submitted(NewState(<<>>), [FormKwargs(BaseInput) EXCEPT
                                            !.invoice_date = strftime_dmY(BaseInput.invoice_date)])

\* d without the key k
Without(d, k) == [j \in DOMAIN d \ {k} |-> d[j]]

RunRecords ==
    {[BaseRecord EXCEPT !.customer["invoice_number"] = v] :
        v \in {NumberWithDigits(k) : k \in 0..MaxDigits} \cup {<<>>, N_12x4, N_other}}
    \cup {[BaseRecord EXCEPT !.customer[f] = <<>>] : f \in CustomerKeys}
    \cup {[BaseRecord EXCEPT !.customer["bill_to_party_email"] = v] : v \in {E_noat, E_nodot}}
    \cup {[BaseRecord EXCEPT !.invoice["rental_price"] = v] : v \in {0, -100000}}
    \cup {[BaseRecord EXCEPT !.invoice["commission_rate"] = v] : v \in {0, -100000}}
    \cup {[BaseRecord EXCEPT !.invoice["tax_amount"] = v] : v \in {1000}}
    \cup {[BaseRecord EXCEPT !.invoice["total_amount"] = v] : v \in {100000}}
    \cup {[BaseRecord EXCEPT !.customer = Without(@, k)] :
            k \in {"invoice_number", "bill_to_party_email", "tenant_name"}}
    \cup {[BaseRecord EXCEPT !.invoice = Without(@, k)] :
            k \in {"rental_price", "commission_rate", "invoice_date", "status"}}

\* what an earlier run may have left in the state
Leftovers ==
    {[validation_status |-> v, invoice_creation_status |-> g, email_notification_status |-> n,
      error |-> e, completed |-> c] :
        v \in {None, [is_valid |-> TRUE]},
        g \in {None, [is_generated |-> TRUE, file_path |-> InvoicePath(N_1234)]},
        n \in {None},
        e \in {None, <<"Invoice generation failed: ">> \o IOError(<<>>),
               <<"Rental price must be greater than 0">>, <<"Duplicate customer ID">>},
        c \in BOOLEAN}

RunInputs ==
    {[customer |-> r.customer, invoice |-> r.invoice,
      validation_status |-> l.validation_status,
      invoice_creation_status |-> l.invoice_creation_status,
      email_notification_status |-> l.email_notification_status,
      error |-> l.error, completed |-> l.completed] : r \in RunRecords, l \in Leftovers}

InitRun ==
    /\ state \in RunInputs
    /\ run0 = state
    /\ pc = "validate"
    /\ store = <<>>
    /\ calls = <<>>
    /\ artifacts = {}
    /\ outbox = {}
    /\ validation_result = None
    /\ last = Report("generate", "running", <<>>)
    /\ clock = 0

NextRun ==
    \/ ValidateStep
    \/ GenerateStep
    \/ NotifyStep

SpecRun == InitRun /\ [][NextRun]_vars

(***************************************************************************)
(* DataValidator.validate_workflow_state on its own, over every            *)
(* combination of present and missing fields.                              *)
(***************************************************************************)
ValidatorCustomers ==
    [invoice_number : {<<>>, N_1234, N_1},
     bill_to_party_name : {<<>>, <<"Acme">>},
     bill_to_party_email : {<<>>, E_good, E_nodot},
     bill_to_party_address_1 : {<<>>, <<"Tower 1">>},
     bill_to_party_address_2 : {<<>>, <<"Dubai">>},
     bill_to_party_trn : {<<>>, T_good, T_short},
     tenant_name : {<<"Tenant">>}]

ValidatorInvoices ==
    [invoice_date : {<<>>, strftime_Ymd(BaseInput.invoice_date), strftime_dmY(BaseInput.invoice_date)},
     property_name : {<<>>, <<"Villa">>},
     rental_price : {0, 12000000},
     commission_rate : {0, 100000},
     tax_amount : {0, 5000},
     total_amount : {105000},
     status : {S_Pending},
     payment_date : {<<>>}]

\* tenant_name and total_amount are missing as absent keys, the others as empty values
ValidatorInputs ==
    {[NewState(<<>>) EXCEPT
        !.customer = IF dropTenant THEN Without(c, "tenant_name") ELSE c,
        !.invoice = IF dropTotal THEN Without(i, "total_amount") ELSE i] :
        c \in ValidatorCustomers, i \in ValidatorInvoices,
        dropTenant \in BOOLEAN, dropTotal \in BOOLEAN}

InitValidate ==
    /\ state \in ValidatorInputs
    /\ pc = "validator"
    /\ validation_result = None
    /\ run0 = None
    /\ store = <<>>
    /\ calls = <<>>
    /\ artifacts = {}
    /\ outbox = {}
    /\ last = Report("validate", "running", <<>>)
    /\ clock = 0

\* a call of DataValidator.validate_workflow_state
ValidateWorkflowState ==
    /\ pc = "validator"
    /\ validation_result' = validate_workflow_state(state)
    /\ pc' = "validated"
    /\ last' = Report("validate", IF validate_workflow_state(state) = None THEN "ok" ELSE "invalid", <<>>)
    /\ UNCHANGED <<state, store, calls, artifacts, outbox, run0, clock>>

NextValidate == ValidateWorkflowState

SpecValidate == InitValidate /\ [][NextValidate]_vars

(***************************************************************************)
(* Properties                                                              *)
(***************************************************************************)
Running == pc \in {"validate", "generate", "notify", "return"}

StageOrder == <<"validate_step", "generate_invoice", "send_invoice">>

Called(name) == \E i \in 1..Len(calls) : calls[i].name = name

RaisedIn(name) == \E i \in 1..Len(calls) : calls[i].name = name /\ calls[i].result = "raised"

HasPrefix(e, prefix) == e # None /\ e[1] = prefix

\* the validation stage, run on the record alone, rejects it
ValidationRejects(ws) ==
    LET r == validate_step([ws EXCEPT !.error = None, !.validation_status = None])
    IN  r.raised # None \/ r.ws.error # None

\* error unset, not completed, no stage result
Fresh(ws) ==
    /\ ws.error = None /\ ~ws.completed
    /\ ws.validation_status = None
    /\ ws.invoice_creation_status = None
    /\ ws.email_notification_status = None

\* C1: in every run the stages are invoked in the order validate, generate,
\* send; generate_invoice is invoked only if the validation stage accepts the
\* record, send_invoice only if generate_invoice returned, no stage follows
\* one that raised, and a rejected record yields no artifact and no message.
C1_StagesOrderedFailFast ==
    Running =>
        /\ Len(calls) <= 3
        /\ \A i \in 1..Len(calls) : calls[i].name = StageOrder[i]
        /\ \A i \in 1..(Len(calls) - 1) : calls[i].result = "returned"
        /\ Called("generate_invoice") => ~ValidationRejects(run0)
        /\ ValidationRejects(run0) => artifacts = {} /\ outbox = {}
        /\ Called("send_invoice") => artifacts # {}
        /\ outbox # {} => Called("send_invoice")

C1_Witness ==
    /\ pc = "return"
    /\ ValidationRejects(run0)
    /\ Len(calls) = 1
    /\ artifacts = {} /\ outbox = {}

\* C2: whenever run_workflow returns a run state whose error is set, that
\* state has completed = false.
C2_ErrorImpliesNotCompleted ==
    (pc = "return" /\ state.error # None) => ~state.completed

\* C3: the outcome of run_workflow depends on the record and on the
\* collaborators' outcomes only, not on what an earlier run left in the
\* state: the generation stage runs exactly when the record passes
\* validation, and the returned error is unset exactly when the three stages
\* ran without raising.
C3_OutcomeDependsOnRecordOnly ==
    pc = "return" =>
        /\ Called("generate_invoice") <=> ~ValidationRejects(run0)
        /\ state.error = None <=> (Len(calls) = 3 /\ calls[3].result # "raised")

\* C4: when send_invoice returns False the run records is_sent = false, leaves
\* error unset and ends completed; the error 'Email notification failed' is
\* set by the notification stage only when send_invoice raised, and then the
\* stage result is not recorded.
C4_SoftNotificationFailure ==
    pc = "return" =>
        /\ (Len(calls) = 3 /\ calls[3].result = "False") =>
                /\ state.email_notification_status # None
                /\ state.email_notification_status.is_sent = FALSE
                /\ state.error = None
                /\ state.completed
        /\ (Called("generate_invoice") /\ HasPrefix(state.error, "Email notification failed: ")) =>
                RaisedIn("send_invoice")
        /\ RaisedIn("send_invoice") =>
                /\ HasPrefix(state.error, "Email notification failed: ")
                /\ state.email_notification_status = run0.email_notification_status

C4_Witness ==
    /\ pc = "return"
    /\ Len(calls) = 3
    /\ calls[3].result = "False"
    /\ state.completed

StagePrefix(name) ==
    CASE name = "validate_step" -> "Workflow execution failed: "
      [] name = "generate_invoice" -> "Invoice generation failed: "
      [] name = "send_invoice" -> "Email notification failed: "

\* C5: a run always goes on to return, whatever the input run state and
\* whichever stage raises, and the returned error then carries the prefix of
\* the stage that raised.
C5_NoExceptionEscapes ==
    /\ pc \in {"validate", "generate", "notify"} => ENABLED NextRun
    /\ pc = "return" =>
            \A i \in 1..Len(calls) :
                calls[i].result = "raised" => HasPrefix(state.error, StagePrefix(calls[i].name))

C5_Witness ==
    /\ pc = "return"
    /\ RaisedIn("validate_step")
    /\ "tenant_name" \notin DOMAIN state.customer

\* C6: invoice status 'Generated' always comes with a generation result that
\* has is_generated and a file path; during a run the status changes only in
\* the generation stage, to 'Generated', when generate_invoice returned a
\* path; a generation that raised leaves the invoice unchanged.
C6_StatusOnlyByGeneration ==
    /\ [](state.invoice["status"] = S_Generated =>
            /\ state.invoice_creation_status # None
            /\ state.invoice_creation_status.is_generated
            /\ state.invoice_creation_status.file_path # None)
    /\ [][(Running /\ state'.invoice["status"] # state.invoice["status"]) =>
            /\ pc = "generate"
            /\ state'.invoice["status"] = S_Generated
            /\ calls'[2].result = "returned"
            /\ \E a \in artifacts' : a.path = state'.invoice_creation_status.file_path]_vars
    /\ [][(pc = "generate" /\ calls'[2].result = "raised") => state'.invoice = state.invoice]_vars

C6_Witness ==
    /\ pc = "notify"
    /\ run0.invoice["status"] = S_Pending
    /\ state.invoice["status"] = S_Generated

\* C7: in a run started from a fresh run state, completed is true only once
\* the run has returned, and then the three stage results are set
\* (is_valid, is_generated, a notification status) and error is unset.
C7_CompletedOnlyAtDone ==
    (Running /\ Fresh(run0) /\ state.completed) =>
        /\ pc = "return"
        /\ Len(calls) = 3
        /\ state.validation_status # None /\ state.validation_status.is_valid
        /\ state.invoice_creation_status # None /\ state.invoice_creation_status.is_generated
        /\ state.email_notification_status # None
        /\ state.error = None

C7_Witness ==
    /\ pc = "return"
    /\ Fresh(run0)
    /\ state.completed

\* C8: a run whose invoice number is not 'VREB' followed by exactly 4 digits
\* ends in the validation stage with error set and generates no artifact.
C8_OnlyFourDigitNumbersPass ==
    (Running /\ "invoice_number" \in DOMAIN run0.customer
             /\ ~InvoiceNumberBody(run0.customer["invoice_number"])) =>
        /\ ~Called("generate_invoice")
        /\ artifacts = {}
        /\ Len(calls) >= 1 => state.error # None

\* the record of the state is one the Submit button builds
FormBuilt(st) == \E kwargs \in FormSubmissions : Submitted(st, kwargs) = st

\* all required fields present, number 'VREB' + 4 digits, well-formed email,
\* 15-digit TRN, positive amounts
WellFormedRecord(st) ==
    /\ \A k \in CustomerKeys : st.customer[k] # <<>>
    /\ st.invoice["property_name"] # <<>> /\ st.invoice["invoice_date"] # <<>>
    /\ InvoiceNumberBody(st.customer["invoice_number"])
    /\ EmailBody(st.customer["bill_to_party_email"])
    /\ VatBody(st.customer["bill_to_party_trn"])
    /\ \A k \in {"rental_price", "commission_rate", "tax_amount", "total_amount"} : st.invoice[k] > 0

\* C9: after handle_submit with a well-formed record built by the form, the
\* validator reported no error and the handler went on to save_record.
C9_FormSubmissionIsSaved ==
    (last.op = "submit" /\ FormBuilt(state) /\ WellFormedRecord(state)) =>
        /\ validation_result = None
        /\ last.result \in {"saved", "failed"}
        /\ last.result = "saved" =>
                \E i \in 1..Len(store) : store[i].invoice_number = state.customer["invoice_number"]

Count(seq, x) == Cardinality({i \in 1..Len(seq) : seq[i] = x})

\* the field is missing from the dict or empty
IsMissing(d, k) ==
    \/ k \notin DOMAIN d
    \/ k \in {"rental_price", "commission_rate", "tax_amount", "total_amount"} /\ d[k] = 0
    \/ k \notin {"rental_price", "commission_rate", "tax_amount", "total_amount"} /\ d[k] = <<>>

Violates(d, k, Body(_)) == ~IsMissing(d, k) /\ ~Body(d[k])

BoolToNat(b) == IF b THEN 1 ELSE 0

\* C10: the validator's result holds exactly one '<field> is required' error
\* for each required field that is missing or empty and none for a present
\* one, each format error exactly when its own field is present and
\* malformed, and nothing else.
C10_AllViolationsCollected ==
    pc = "validated" =>
        LET c == state.customer
            v == state.invoice
            missingC == {i \in 1..Len(required_customer_fields) :
                            IsMissing(c, required_customer_fields[i].field)}
            missingV == {i \in 1..Len(required_invoice_fields) :
                            IsMissing(v, required_invoice_fields[i].field)}
        IN  /\ \A i \in 1..Len(required_customer_fields) :
                 Count(validation_result, <<required_customer_fields[i].display, " is required">>)
                    = BoolToNat(i \in missingC)
            /\ \A i \in 1..Len(required_invoice_fields) :
                 Count(validation_result, <<required_invoice_fields[i].display, " is required">>)
                    = BoolToNat(i \in missingV)
            /\ Count(validation_result, InvoiceNumberFormatError)
                    = BoolToNat(Violates(c, "invoice_number", InvoiceNumberBody))
            /\ Count(validation_result, EmailFormatError)
                    = BoolToNat(Violates(c, "bill_to_party_email", EmailBody))
            /\ Count(validation_result, TrnFormatError)
                    = BoolToNat(Violates(c, "bill_to_party_trn", VatBody))
            /\ Count(validation_result, DateFormatError)
                    = BoolToNat(Violates(v, "invoice_date", validate_date_format))
            /\ Len(validation_result)
                    = Cardinality(missingC) + Cardinality(missingV)
                      + BoolToNat(Violates(c, "invoice_number", InvoiceNumberBody))
                      + BoolToNat(Violates(c, "bill_to_party_email", EmailBody))
                      + BoolToNat(Violates(c, "bill_to_party_trn", VatBody))
                      + BoolToNat(Violates(v, "invoice_date", validate_date_format))

C10_Witness ==
    /\ pc = "validated"
    /\ "tenant_name" \notin DOMAIN state.customer
    /\ state.customer["bill_to_party_name"] = <<>>
    /\ state.invoice["rental_price"] = 0
    /\ Count(validation_result, InvoiceNumberFormatError) = 1
    /\ Count(validation_result, DateFormatError) = 1
    /\ Len(validation_result) = 5

(***************************************************************************)
(* The record store behind the application                                 *)
(***************************************************************************)
\* the last handler was handle_submit and it got as far as save_record
ReachedSaveRecord == last.op = "submit" /\ last.result \in {"saved", "failed"}

MaxClock == 1

T_zeros == <<"0", "0", "0", "0", "0", "0", "0", "0", "0", "0", "0", "0", "0", "0", "3">>

\* the run states handed to save_record: two identities, each with two contents
StoreRecords ==
    {[BaseRecord EXCEPT !.customer["invoice_number"] = n,
                        !.customer["tenant_name"] = v.tenant_name,
                        !.customer["bill_to_party_trn"] = v.bill_to_party_trn] :
        n \in {N_1234, N_0002},
        v \in {[tenant_name |-> <<"Tenant">>, bill_to_party_trn |-> T_good],
               [tenant_name |-> <<"Other">>, bill_to_party_trn |-> T_zeros]}}

StoreStatuses == {S_Generated}

StoreCall(op, arg, raised) == [op |-> op, arg |-> arg, raised |-> raised]

InitStore ==
    /\ store = <<>>
    /\ clock = 0
    /\ state = None
    /\ pc = "store"
    /\ last = StoreCall("init", None, None)
    /\ calls = <<>>
    /\ artifacts = {}
    /\ outbox = {}
    /\ run0 = None
    /\ validation_result = None

\* a call of DataManager.save_record
SaveRecord ==
    /\ pc = "store"
    /\ \E workflow_state_dict \in StoreRecords, io \in IoOutcomes, loc \in LocAssignOutcomes :
        \E r \in {save_record(store, workflow_state_dict, io, loc, clock)} :
            /\ store' = r.df
            /\ last' = StoreCall("save_record", workflow_state_dict, r.raised)
    /\ state' = None
    /\ UNCHANGED <<pc, calls, artifacts, outbox, run0, validation_result, clock>>

\* a call of DataManager.update_invoice_status
UpdateInvoiceStatus ==
    /\ pc = "store"
    /\ \E invoice_number \in {N_1234, N_0002}, status \in StoreStatuses :
        /\ store' = update_invoice_status(store, invoice_number, status, clock)
        /\ last' = StoreCall("update_invoice_status",
                             [invoice_number |-> invoice_number, status |-> status], None)
    /\ state' = None
    /\ UNCHANGED <<pc, calls, artifacts, outbox, run0, validation_result, clock>>

\* a call of DataManager.get_invoice
GetInvoice ==
    /\ pc = "store"
    /\ \E invoice_number \in {N_1234, N_0002} :
        /\ state' = get_invoice(store, invoice_number)
        /\ last' = StoreCall("get_invoice", [invoice_number |-> invoice_number], None)
    /\ UNCHANGED <<store, pc, calls, artifacts, outbox, run0, validation_result, clock>>

\* a second passes
Tick ==
    /\ pc = "store"
    /\ clock < MaxClock
    /\ clock' = clock + 1
    /\ UNCHANGED <<state, store, pc, calls, artifacts, outbox, run0, validation_result, last>>

NextStore ==
    \/ SaveRecord
    \/ UpdateInvoiceStatus
    \/ GetInvoice
    \/ Tick

SpecStore == InitStore /\ [][NextStore]_vars

\* the fields of the run state that save_record writes
SavedFields(ws) ==
    [customer |-> ws.customer,
     invoice |-> [k \in InvoiceColumns \cup {"payment_date"} |-> ws.invoice[k]]]

\* C12: the file never holds two rows of one invoice number; a save_record of
\* a number the file already holds leaves the number of rows as it is; and
\* the get_invoice that follows a save_record returns, for that number, the
\* customer and invoice fields that were saved.
C12_OneRowPerIdentityRoundTrip ==
    /\ [](\A i, j \in 1..Len(store) :
            store[i].invoice_number = store[j].invoice_number => i = j)
    /\ [][(last'.op = "save_record" /\ last'.raised = None) =>
            LET number == last'.arg.customer["invoice_number"]
                found == get_invoice(store', number)
            IN  /\ (RowsOf(store, number) # {} => Len(store') = Len(store))
                /\ found # None
                /\ SavedFields(found) = SavedFields(last'.arg)]_vars

\* C13: a handle_submit that does not save the record, because
\* validate_workflow_state returned errors or because save_record raised,
\* leaves state.customer and state.invoice as they were before the call.
C13_UnsavedSubmissionLeavesRecord ==
    [][(last'.op = "submit" /\ last'.result \in {"invalid", "failed"}) =>
            (state'.customer = state.customer /\ state'.invoice = state.invoice)]_vars

\* C14: between the entry of run_workflow and its return the file is not
\* written, whether the run ends in Done or with an error; in particular the
\* status the file holds for the processed record is unchanged.
C14_RunLeavesStoreAlone ==
    [][(pc \in {"validate", "generate", "notify"}) => (store' = store)]_vars

\* a run of a saved record reached Done: the state says 'Generated', the file
\* still says 'Pending'
C14_Witness ==
    /\ pc = "return"
    /\ state.error = None /\ state.completed
    /\ state.invoice["status"] = S_Generated
    /\ \E i \in 1..Len(store) :
        /\ store[i].invoice_number = state.customer["invoice_number"]
        /\ store[i].status = S_Pending

(***************************************************************************)
(* The amounts on the invoice                                              *)
(***************************************************************************)
\* commission_rate * VAT_RATE, in fils
VatOn(commission_rate) == (commission_rate * VAT_RATE_PERCENT) \div 100

\* C15: whenever the generation stage of a run has written the invoice, the
\* total it drew (Balance Due, Amount, SUB Total, TOTAL) is the commission
\* plus the VAT on the commission and the tax it drew is the VAT on the
\* commission, to two decimals.
C15_DrawnTotalIsCommissionPlusVat ==
    (Running /\ Called("generate_invoice") /\ ~RaisedIn("generate_invoice")) =>
        \A a \in artifacts :
            LET commission == run0.invoice["commission_rate"]
            IN  /\ a.amounts.balance_due = format_currency(commission + VatOn(commission))
                /\ a.amounts.amount = format_number(commission + VatOn(commission))
                /\ a.amounts.sub_total = format_number(commission + VatOn(commission))
                /\ a.amounts.total = format_currency(commission + VatOn(commission))
                /\ a.amounts.tax = format_number(VatOn(commission))
                /\ a.amounts.sub_total_tax = format_number(VatOn(commission))

(***************************************************************************)
(* The pipeline with EmailHandler as its notifier: run_workflow on a fresh *)
(* run state, the notification stage calling EmailHandler.send_invoice.    *)
(***************************************************************************)
\* the keys send_invoice reads, which the application's records do not have
MailFields ==
    [customer |-> [cust_fname |-> <<"Acme">>],
     invoice |-> [transaction_id |-> <<"T", "X", "1">>, currency |-> <<"AED">>,
                  billed_amount |-> <<"1,050.00">>, payment_due_date |-> <<"31/01/2024">>]]

\* a run state with those keys added, all of them or all but one
WithMailFields(ws, dropped) ==
    [ws EXCEPT !.customer = Update(@, Without(MailFields.customer, dropped)),
               !.invoice = Update(@, Without(MailFields.invoice, dropped))]

MailInputs ==
    {[r EXCEPT !.completed = FALSE] : r \in RunRecords}
    \cup {WithMailFields(BaseRecord, dropped) :
            dropped \in {"none"} \cup {MailReads[i][2] : i \in 1..Len(MailReads)}}

InitMail ==
    /\ state \in MailInputs
    /\ run0 = state
    /\ pc = "validate"
    /\ store = <<>>
    /\ calls = <<>>
    /\ artifacts = {}
    /\ outbox = {}
    /\ validation_result = None
    /\ last = [op |-> "generate", result |-> "running", env |-> None]
    /\ clock = 0

\* run_workflow, lines 130-140, with EmailHandler.send_invoice as the callee
NotifyByEmail ==
    /\ pc = "notify"
    /\ \E env \in MailEnvs :
        LET r == IF SendArgsError(state) # None
                 THEN [returned |-> FALSE, raised |-> None, message |-> None]
                 ELSE send_invoice(state.customer["bill_to_party_email"], state,
                                   state.invoice_creation_status.file_path, env)
            send == IF r.raised # None THEN "raise" ELSE IF r.returned THEN "sent" ELSE "refused"
        IN  /\ state' = Finish(send_notification_step(state, send))
            /\ outbox' = IF r.message # None THEN outbox \cup {r.message} ELSE outbox
            /\ calls' = IF SendArgsError(state) = None
                         THEN Append(calls, Call("send_invoice",
                                CASE send = "sent" -> "True" [] send = "refused" -> "False"
                                  [] OTHER -> "raised"))
                         ELSE calls
            /\ last' = [op |-> "send_invoice", result |-> send, env |-> env]
    /\ pc' = "return"
    /\ UNCHANGED <<store, artifacts, run0, validation_result, clock>>

NextMail ==
    \/ ValidateStep
    \/ GenerateStep
    \/ NotifyByEmail

SpecMail == InitMail /\ [][NextMail]_vars

\* the notification stage has called send_invoice
MailAttempted == pc = "return" /\ last.op = "send_invoice" /\ Called("send_invoice")

\* the file is there and the server accepts the login and the message
AllAccepting == [file |-> TRUE, login |-> TRUE, transmit |-> TRUE]

\* the record has the fields the application gives it and no others
ApplicationFields(ws) ==
    /\ DOMAIN ws.customer = CustomerKeys
    /\ DOMAIN ws.invoice = InvoiceColumns \cup {"payment_date"}

\* s occurs in the text
Mentions(text, s) == \E i \in 1..Len(text) : SubSeq(text, i, i + Len(s) - 1) = s

\* C16: when the run state has the application's fields, the invoice file
\* exists and the server accepts the login and the message, send_invoice
\* returns True (is_sent is recorded as true) after handing over a message to
\* the recipient whose subject holds the invoice number, whose body names the
\* bill-to party and which carries the generated file.
C16_AcceptedMailIsSent ==
    (MailAttempted /\ last.env = AllAccepting /\ ApplicationFields(run0)) =>
        /\ state.email_notification_status # None
        /\ state.email_notification_status.is_sent = TRUE
        /\ \E m \in outbox :
            /\ m.to = run0.customer["bill_to_party_email"]
            /\ m.attachment = state.invoice_creation_status.file_path
            /\ Mentions(m.subject, run0.customer["invoice_number"])
            /\ Mentions(m.body, run0.customer["bill_to_party_name"])

\* C17: send_invoice never raises: whenever the file is missing, the login or
\* the transmission is refused or the record lacks a key the message needs,
\* it returns False, the run records is_sent = false and ends completed
\* without error; no run ends with an 'Email notification failed' error.
C17_SendInvoiceNeverRaises ==
    /\ ~RaisedIn("send_invoice")
    /\ ~HasPrefix(state.error, "Email notification failed: ")
    /\ (MailAttempted /\ MailFailure(run0, last.env) # None) =>
            /\ state.email_notification_status # None
            /\ state.email_notification_status.is_sent = FALSE
            /\ state.error = None
            /\ state.completed
            /\ outbox = {}

\* the record has every key of the message and the file is there, but the
\* server refused the login: the run is completed with is_sent = false
C17_Witness ==
    /\ MailAttempted
    /\ "transaction_id" \in DOMAIN run0.invoice /\ "cust_fname" \in DOMAIN run0.customer
    /\ last.env.file /\ ~last.env.login
    /\ state.email_notification_status.is_sent = FALSE
    /\ state.completed /\ state.error = None

(***************************************************************************)
(* The timestamps of a row                                                 *)
(***************************************************************************)
\* the step is a save_record that returned, for a number the file already held
Resaved ==
    /\ last'.op = "save_record" /\ last'.raised = None
    /\ <<last, store>>' # <<last, store>>
    /\ RowsOf(store, last'.arg.customer["invoice_number"]) # {}

\* C18: a save_record for an invoice number the file already holds leaves the
\* created_at of that row as it was and sets its updated_at to the instant of
\* the call; a row whose created_at differs from its updated_at is never
\* produced by a first save.
C18_ResaveKeepsCreatedAt ==
    /\ [][Resaved =>
            \A i \in RowsOf(store, last'.arg.customer["invoice_number"]) :
                /\ store'[i].created_at = store[i].created_at
                /\ store'[i].updated_at = clock]_vars
    /\ [][(last'.op = "save_record" /\ last'.raised = None
            /\ RowsOf(store, last'.arg.customer["invoice_number"]) = {}) =>
            \A i \in RowsOf(store', last'.arg.customer["invoice_number"]) :
                store'[i].created_at = store'[i].updated_at]_vars

(***************************************************************************)
(* KYCManager._add_declaration: the word wrap of the declaration text       *)
(* (kyc_manager.py).  A run holds, in `state`, the words of the text, the    *)
(* width canvas.stringWidth gives each word followed by a space, and the    *)
(* locals of the loop.                                                      *)
(***************************************************************************)
MaxWords == 3

max_width == 500

\* the words a declaration text is made of
WrapWords == {<<"I">>, <<"a", "m">>}

\* canvas.stringWidth(word + " ", 'Helvetica', 10), in points
WordWidths == {200, 300, 600}

\* ' '.join(parts)
RECURSIVE JoinSpace(_)
JoinSpace(parts) ==
    IF parts = <<>> THEN <<>>
    ELSE IF Len(parts) = 1 THEN parts[1]
    ELSE parts[1] \o <<" ">> \o JoinSpace(Tail(parts))

WrapInputs ==
    { [words |-> w, stringWidth |-> sw, word |-> 1, lines |-> <<>>,
       current_line |-> <<>>, line_width |-> 0, text_height |-> 0] :
        w \in UNION {[1..n -> WrapWords] : n \in 0..MaxWords},
        sw \in [WrapWords -> WordWidths] }

InitWrap ==
    /\ state \in WrapInputs
    /\ run0 = state
    /\ pc = "wrap"
    /\ store = <<>>
    /\ calls = <<>>
    /\ artifacts = {}
    /\ outbox = {}
    /\ validation_result = None
    /\ last = None
    /\ clock = 0

\* one pass of `for word in words`
WrapWord ==
    /\ pc = "wrap"
    /\ state.word <= Len(state.words)
    /\ LET word == state.words[state.word]
           word_width == state.stringWidth[word]
       IN  IF state.line_width + word_width <= max_width
           THEN state' = [state EXCEPT !.current_line = Append(@, word),
                                       !.line_width = @ + word_width,
                                       !.word = @ + 1]
           ELSE state' = [state EXCEPT !.lines = Append(@, JoinSpace(state.current_line)),
                                       !.current_line = <<word>>,
                                       !.line_width = word_width,
                                       !.word = @ + 1]
    /\ UNCHANGED <<store, pc, calls, artifacts, outbox, run0, validation_result, last, clock>>

\* after the loop: the line in progress is kept, the height of the box is set
WrapFinish ==
    /\ pc = "wrap"
    /\ state.word > Len(state.words)
    /\ \E lines \in {IF state.current_line # <<>>
                     THEN Append(state.lines, JoinSpace(state.current_line))
                     ELSE state.lines} :
          state' = [state EXCEPT !.lines = lines,
                                 !.text_height = Len(lines) * 15 + 10]
    /\ pc' = "wrapped"
    /\ UNCHANGED <<store, calls, artifacts, outbox, run0, validation_result, last, clock>>

NextWrap == WrapWord \/ WrapFinish

SpecWrap == InitWrap /\ [][NextWrap]_vars

\* the line is made of whole consecutive words of the text
WholeWords(line, words) ==
    \E a \in 1..Len(words), b \in 1..Len(words) :
        a <= b /\ line = JoinSpace(SubSeq(words, a, b))

\* C19: when the wrap of the declaration text is done, every line is made of
\* whole words, the lines joined by single spaces are the words joined by
\* single spaces, no line is empty, and the height of the box is
\* 15 * (number of lines) + 10, whatever the words and their widths.
C19_WrapKeepsWordsNoEmptyLine ==
    pc = "wrapped" =>
        /\ \A i \in 1..Len(state.lines) :
              /\ state.lines[i] # <<>>
              /\ WholeWords(state.lines[i], state.words)
        /\ JoinSpace(state.lines) = JoinSpace(state.words)
        /\ state.text_height = 15 * Len(state.lines) + 10

\* the parts of C19 that do not depend on the first word fitting the line
C19_HeightFollowsLineCount ==
    pc = "wrapped" =>
        /\ state.text_height = 15 * Len(state.lines) + 10
        /\ \A i \in 1..Len(state.lines) :
              state.lines[i] # <<>> => WholeWords(state.lines[i], state.words)

(***************************************************************************)
(* KYCManager.generate_kyc_application: the field sections of the KYC       *)
(* application (kyc_manager.py, kyc_application_pdf_config.py).  A key of    *)
(* the record is written as the sequence of its parts between underscores:  *)
(* 'passport_issue_date' is <<"passport", "issue", "date">>.                 *)
(***************************************************************************)
PDF_SECTIONS ==
    <<"CUSTOMER INFORMATION", "Customer Information", "Customer Occupation",
      "Customer Profile and Payment", "Declaration">>

\* PDF_FIELDS.get(section, []): the (label, key) pairs of a section
PDF_FIELDS(section) ==
    IF section = "CUSTOMER INFORMATION" THEN <<
           <<"Residential Status", <<"residential", "status">>>>,
           <<"Full Name (as per passport)", <<"full", "name">>>>,
           <<"Residential Address", <<"residential", "address", "line1">>>>,
           <<"Residential Address", <<"residential", "address", "line2">>>>,
           <<"Home Address", <<"home", "address", "line1">>>>,
           <<"Home Address", <<"home", "address", "line2">>>>,
           <<"Contact Details", <<"contact", "landline">>>>,
           <<"Landline Office", <<"contact", "office">>>>,
           <<"Mobile", <<"contact", "mobile">>>>>>
    ELSE IF section = "Customer Information" THEN <<
           <<"Gender", <<"gender">>>>,
           <<"Nationality", <<"nationality">>>>,
           <<"Date of Birth", <<"date", "of", "birth">>>>,
           <<"Place Of Birth", <<"place", "of", "birth">>>>,
           <<"Passport Number", <<"passport", "number">>>>,
           <<"Passport Issue Place", <<"passport", "issue", "place">>>>,
           <<"Passport Issue Date", <<"passport", "issue", "date">>>>,
           <<"Passport Expiry Date", <<"passport", "expiry", "date">>>>,
           <<"Dual Nationality (if any)", <<"dual", "nationality">>>>,
           <<"Dual Passport Number", <<"dual", "passport", "number">>>>,
           <<"Issue Date", <<"dual", "passport", "issue", "date">>>>,
           <<"Expiry Date", <<"dual", "passport", "expiry", "date">>>>,
           <<"Emirates ID Number", <<"emirates", "id">>>>,
           <<"Emirates ID Expiry Date", <<"emirates", "id", "expiry">>>>,
           <<"Visa UID Number", <<"visa", "uid">>>>,
           <<"Visa Expiry Date", <<"visa", "expiry">>>>>>
    ELSE IF section = "Customer Occupation" THEN <<
           <<"Occupation", <<"occupation">>>>,
           <<"Name Of the Sponsor | Business", <<"sponsor", "business", "name">>>>,
           <<"Sponsor | Business Address", <<"sponsor", "business", "address">>>>,
           <<"Sponsor | Business Contacts Details Landline", <<"sponsor", "business", "landline">>>>,
           <<"Mobile", <<"sponsor", "business", "mobile">>>>>>
    ELSE IF section = "Customer Profile and Payment" THEN <<
           <<"Annual Salary Income |Business Income", <<"annual", "income">>>>,
           <<"Purpose of Investment", <<"investment", "purpose">>>>,
           <<"Source of Fund", <<"source", "of", "funds">>>>,
           <<"Payment Method", <<"payment", "method">>>>>>
    ELSE <<>>

\* key.endswith(('_date', 'Date')): the last part of the key follows an
\* underscore and is 'date', or it is a camel-case part 'Date'
EndsWithDate(key) ==
    \/ Len(key) >= 2 /\ key[Len(key)] = "date"
    \/ key # <<>> /\ key[Len(key)] = "Date"

UpperChars ==
    <<"A", "B", "C", "D", "E", "F", "G", "H", "I", "J", "K", "L", "M",
      "N", "O", "P", "Q", "R", "S", "T", "U", "V", "W", "X", "Y", "Z">>

LowerChars ==
    <<"a", "b", "c", "d", "e", "f", "g", "h", "i", "j", "k", "l", "m",
      "n", "o", "p", "q", "r", "s", "t", "u", "v", "w", "x", "y", "z">>

\* str.lower
Lower(s) ==
    [i \in 1..Len(s) |->
        IF \E n \in 1..26 : UpperChars[n] = s[i]
        THEN LowerChars[CHOOSE n \in 1..26 : UpperChars[n] = s[i]]
        ELSE s[i]]

S_nan == <<"n", "a", "n">>

\* datetime.strptime(value, '%Y-%m-%d') of a value it accepts
strptime_Ymd(value) ==
    LET i == CHOOSE i \in 1..Len(value) :
                 value[i] = "-" /\ \A k \in 1..(i - 1) : value[k] # "-"
        j == CHOOSE j \in (i + 1)..Len(value) :
                 value[j] = "-" /\ \A k \in (i + 1)..(j - 1) : value[k] # "-"
    IN  [y |-> IntOf(SubSeq(value, 1, i - 1)),
         m |-> IntOf(SubSeq(value, i + 1, j - 1)),
         d |-> IntOf(SubSeq(value, j + 1, Len(value)))]

\* date.strftime('%d-%m-%Y')
strftime_d_m_Y(d) == Pad(d.d, 2) \o <<"-">> \o Pad(d.m, 2) \o <<"-">> \o Pad(d.y, 4)

\* the try/except around strptime(...).strftime(...): the display form if
\* the value parses, else the value
DisplayDate(value) ==
    IF StrptimeOk(value, "-", TRUE) THEN strftime_d_m_Y(strptime_Ymd(value)) ELSE value

\* str(data.get(key, ''))
StrGet(data, key) == IF key \in DOMAIN data THEN data[key] ELSE <<>>

\* the value of a field as a normal row or a column draws it
FieldText(data, key) ==
    IF EndsWithDate(key) THEN DisplayDate(StrGet(data, key)) ELSE StrGet(data, key)

\* `if not pd.isna(value) and value.lower() != 'nan'`: the value is drawn
IsDrawn(value) == Lower(value) # S_nan

\* what drawString puts in the value cell of field n of a single-column
\* section: the two rows of a merged 'Residential Address' / 'Home Address'
\* label draw the value as it is, the other rows draw FieldText.
\* MergedActive is is_merged_cell_active as row n finds it: set by a row
\* with such a label that found it unset, unset by the row after that one.
RECURSIVE MergedActive(_, _)
MergedActive(fields, n) ==
    IF n = 1 THEN FALSE
    ELSE IF MergedActive(fields, n - 1) THEN FALSE
    ELSE fields[n - 1][1] \in {"Residential Address", "Home Address"}

SectionDraws(section, data) ==
    LET fields == PDF_FIELDS(section)
        Text(n) == IF \/ fields[n][1] \in {"Residential Address", "Home Address"}
                      \/ MergedActive(fields, n)
                   THEN StrGet(data, fields[n][2])
                   ELSE FieldText(data, fields[n][2])
    IN  { [key |-> fields[n][2], text |-> Text(n), layout |-> "single"] :
            n \in {n \in 1..Len(fields) : IsDrawn(Text(n))} }

\* the value cells of the two-column section: fields[i] in the left column,
\* fields[i+1] in the right one
TwoColumnDraws(section, data) ==
    LET fields == PDF_FIELDS(section)
    IN  { [key |-> fields[n][2], text |-> FieldText(data, fields[n][2]), layout |-> "two"] :
            n \in {n \in 1..Len(fields) : IsDrawn(FieldText(data, fields[n][2]))} }

\* every key of PDF_FIELDS
PdfKeys ==
    UNION {{PDF_FIELDS(PDF_SECTIONS[s])[n][2] : n \in 1..Len(PDF_FIELDS(PDF_SECTIONS[s]))} :
            s \in 1..Len(PDF_SECTIONS)}

\* the values a cell of the record holds
KycValues ==
    { <<"1", "9", "9", "0", "-", "0", "5", "-", "1", "7">>,
      <<"2", "0", "2", "3", "-", "0", "2", "-", "3", "0">>,
      <<"1", "7", "-", "0", "5", "-", "1", "9", "9", "0">>,
      <<"N", "a", "N">>,
      S_nan }

\* the records: no key, or one key with a value
KycRecords == {<<>>} \cup {[k \in {key} |-> v] : key \in PdfKeys, v \in KycValues}

InitKyc ==
    /\ state \in {[data |-> data, section |-> 1, drawn |-> {}] : data \in KycRecords}
    /\ run0 = None
    /\ pc = "sections"
    /\ store = <<>>
    /\ calls = <<>>
    /\ artifacts = {}
    /\ outbox = {}
    /\ validation_result = None
    /\ last = None
    /\ clock = 0

\* generate_kyc_application, the `else` branch of the loop over PDF_SECTIONS
AddSection ==
    /\ pc = "sections"
    /\ state.section <= Len(PDF_SECTIONS)
    /\ PDF_SECTIONS[state.section] \notin {"Customer Information", "Declaration"}
    /\ state' = [state EXCEPT
                    !.drawn = @ \cup SectionDraws(PDF_SECTIONS[state.section], state.data),
                    !.section = @ + 1]
    /\ UNCHANGED <<store, pc, calls, artifacts, outbox, run0, validation_result, last, clock>>

\* generate_kyc_application, the "Customer Information" branch
AddTwoColumnSection ==
    /\ pc = "sections"
    /\ state.section <= Len(PDF_SECTIONS)
    /\ PDF_SECTIONS[state.section] = "Customer Information"
    /\ state' = [state EXCEPT
                    !.drawn = @ \cup TwoColumnDraws(PDF_SECTIONS[state.section], state.data),
                    !.section = @ + 1]
    /\ UNCHANGED <<store, pc, calls, artifacts, outbox, run0, validation_result, last, clock>>

\* the run up to the declaration, which draws no field of the record
NextKyc == AddSection \/ AddTwoColumnSection

SpecKyc == InitKyc /\ [][NextKyc]_vars

\* the date-valued fields of the record
DateKeys ==
    { <<"date", "of", "birth">>,
      <<"passport", "issue", "date">>, <<"passport", "expiry", "date">>,
      <<"dual", "passport", "issue", "date">>, <<"dual", "passport", "expiry", "date">>,
      <<"emirates", "id", "expiry">>, <<"visa", "expiry">> }

\* the field sections are all drawn
FieldsDrawn == pc = "sections" /\ PDF_SECTIONS[state.section] = "Declaration"

\* C20: once the field sections are drawn, every date-valued field of the
\* record that holds a value is drawn once, as DD-MM-YYYY if the value is a
\* date in the form YYYY-MM-DD and as it is if not.
C20_DateFieldsDrawnDayFirst ==
    FieldsDrawn =>
        \A key \in DateKeys \cap DOMAIN state.data :
            Lower(state.data[key]) # S_nan =>
                { c.text : c \in {c \in state.drawn : c.key = key} }
                    = { DisplayDate(state.data[key]) }

(***************************************************************************)
(* KYCManager._add_section, row by row (kyc_manager.py).  `state` holds the *)
(* field list of the section, the record, the locals of the loop and what   *)
(* the canvas was asked to draw.  The cursor y is counted from the top of   *)
(* the page: y = -60 is `height - 60`.                                      *)
(***************************************************************************)
MaxFields == 3

AddressLabels == {"Residential Address", "Home Address"}

SingleColumnSections ==
    {"CUSTOMER INFORMATION", "Customer Occupation", "Customer Profile and Payment"}

\* the (label, key) pairs the field lists are made of
SectionTestFields ==
    { <<"Residential Address", <<"residential", "address", "line1">>>>,
      <<"Home Address", <<"home", "address", "line2">>>>,
      <<"Mobile", <<"contact", "mobile">>>> }

SectionFieldLists ==
    {PDF_FIELDS(section) : section \in SingleColumnSections}
        \cup UNION {[1..n -> SectionTestFields] : n \in 0..MaxFields}

\* the records: an empty one, and one with a value under every key
SectionRecords == {<<>>, [key \in PdfKeys |-> <<"x">>]}

SectionInputs ==
    { [fields |-> fields, data |-> data, field |-> 1,
       is_merged_cell_active |-> FALSE, y |-> y, drawn |-> <<>>] :
        fields \in SectionFieldLists, data \in SectionRecords, y \in {-60, -445} }

InitSection ==
    /\ state \in SectionInputs
    /\ run0 = state
    /\ pc = "header"
    /\ store = <<>>
    /\ calls = <<>>
    /\ artifacts = {}
    /\ outbox = {}
    /\ validation_result = None
    /\ last = None
    /\ clock = 0

Rect(x, y, w, h) == [op |-> "rect", x |-> x, y |-> y, w |-> w, h |-> h]

LabelAt(x, y, label) == [op |-> "label", x |-> x, y |-> y, label |-> label]

\* `if not pd.isna(value) and value.lower() != 'nan': canvas.drawString(...)`
ValueAt(x, y, value) ==
    IF IsDrawn(value) THEN <<[op |-> "value", x |-> x, y |-> y, text |-> value]>> ELSE <<>>

\* the header of the section: its grid, its title, y -= 20
SectionHeader ==
    /\ pc = "header"
    /\ state' = [state EXCEPT !.drawn = @ \o <<Rect(40, state.y - 20, 515, 20)>>,
                              !.y = @ - 20]
    /\ pc' = "fields"
    /\ UNCHANGED <<store, calls, artifacts, outbox, run0, validation_result, last, clock>>

\* first row of a merged cell
FirstRow ==
    /\ pc = "fields"
    /\ state.field <= Len(state.fields)
    /\ LET label == state.fields[state.field][1]
           key == state.fields[state.field][2]
           y == state.y
       IN  /\ label \in AddressLabels /\ ~state.is_merged_cell_active
           /\ state' = [state EXCEPT
                  !.is_merged_cell_active = TRUE,
                  !.drawn = @ \o <<Rect(40, y - 40, 210, 40), LabelAt(45, y - 25, label),
                                   Rect(250, y - 20, 305, 20)>>
                              \o ValueAt(255, y - 15, StrGet(state.data, key)),
                  !.y = y - 20,
                  !.field = @ + 1]
    /\ UNCHANGED <<store, pc, calls, artifacts, outbox, run0, validation_result, last, clock>>

\* faulty variant: the second row leaves the merge active
SecondRow_keepsMerge ==
    /\ pc = "fields"
    /\ state.field <= Len(state.fields)
    /\ LET label == state.fields[state.field][1]
           key == state.fields[state.field][2]
           y == state.y
       IN  /\ ~(label \in AddressLabels /\ ~state.is_merged_cell_active)
           /\ state.is_merged_cell_active
           /\ state' = [state EXCEPT
                  !.drawn = @ \o <<Rect(250, y - 20, 305, 20)>>
                              \o ValueAt(255, y - 15, StrGet(state.data, key)),
                  !.y = y - 20,
                  !.field = @ + 1]
    /\ UNCHANGED <<store, pc, calls, artifacts, outbox, run0, validation_result, last, clock>>

\* second row of a merged cell: no label, the second value
SecondRow ==
    /\ pc = "fields"
    /\ state.field <= Len(state.fields)
    /\ LET label == state.fields[state.field][1]
           key == state.fields[state.field][2]
           y == state.y
       IN  /\ ~(label \in AddressLabels /\ ~state.is_merged_cell_active)
           /\ state.is_merged_cell_active
           /\ state' = [state EXCEPT
                  !.is_merged_cell_active = FALSE,
                  !.drawn = @ \o <<Rect(250, y - 20, 305, 20)>>
                              \o ValueAt(255, y - 15, StrGet(state.data, key)),
                  !.y = y - 20,
                  !.field = @ + 1]
    /\ UNCHANGED <<store, pc, calls, artifacts, outbox, run0, validation_result, last, clock>>

\* normal field handling
NormalRow ==
    /\ pc = "fields"
    /\ state.field <= Len(state.fields)
    /\ LET label == state.fields[state.field][1]
           key == state.fields[state.field][2]
           y == state.y
       IN  /\ ~(label \in AddressLabels /\ ~state.is_merged_cell_active)
           /\ ~state.is_merged_cell_active
           /\ state' = [state EXCEPT
                  !.drawn = @ \o <<Rect(40, y - 20, 210, 20), Rect(250, y - 20, 305, 20),
                                   LabelAt(45, y - 15, label)>>
                              \o ValueAt(255, y - 15, FieldText(state.data, key)),
                  !.y = y - 20,
                  !.field = @ + 1]
    /\ UNCHANGED <<store, pc, calls, artifacts, outbox, run0, validation_result, last, clock>>

\* `return y`
SectionReturn ==
    /\ pc = "fields"
    /\ state.field > Len(state.fields)
    /\ pc' = "returned"
    /\ UNCHANGED <<state, store, calls, artifacts, outbox, run0, validation_result, last, clock>>

NextSection == SectionHeader \/ FirstRow \/ SecondRow \/ NormalRow \/ SectionReturn

SpecSection == InitSection /\ [][NextSection]_vars

\* the step handles one field of the list
FieldStep == pc = "fields" /\ state'.field = state.field + 1

\* what the step asked the canvas to draw
StepDraws == SubSeq(state'.drawn, Len(state.drawn) + 1, Len(state'.drawn))

StepOps(op) == {StepDraws[i] : i \in {i \in 1..Len(StepDraws) : StepDraws[i].op = op}}

\* the value cell of the row at cursor y, and the text in it if one is drawn
DrawsValueOf(key, y) ==
    /\ Rect(250, y - 20, 305, 20) \in StepOps("rect")
    /\ \A v \in StepOps("value") : v.text = StrGet(state.data, key) /\ v.y = y - 15

\* C21: in _add_section, for every field list, (1) a field with an
\* address-like label met while no merge is active draws one label cell two
\* rows high, its label once and its own value, and sets the merge; (2) the
\* field met while the merge is active, whatever its label, draws its value
\* and no label and no label cell, and the merge is off after it; (3) every
\* field lowers the cursor by 20; (4) at the end of a configured section the
\* merge is off and no cell reaches below the cursor.
C21_MergedAddressRows ==
    /\ [][(FieldStep /\ state.fields[state.field][1] \in AddressLabels
                     /\ ~state.is_merged_cell_active) =>
            /\ {r \in StepOps("rect") : r.x = 40} = {Rect(40, state.y - 40, 210, 40)}
            /\ {l.label : l \in StepOps("label")} = {state.fields[state.field][1]}
            /\ DrawsValueOf(state.fields[state.field][2], state.y)
            /\ state'.is_merged_cell_active]_vars
    /\ [][(FieldStep /\ state.is_merged_cell_active) =>
            /\ StepOps("label") = {}
            /\ {r \in StepOps("rect") : r.x = 40} = {}
            /\ DrawsValueOf(state.fields[state.field][2], state.y)
            /\ ~state'.is_merged_cell_active]_vars
    /\ [][FieldStep => state'.y = state.y - 20]_vars
    /\ [](pc = "returned" =>
            /\ state.y = run0.y - 20 - 20 * Len(state.fields)
            /\ (\E section \in SingleColumnSections : state.fields = PDF_FIELDS(section)) =>
                  /\ ~state.is_merged_cell_active
                  /\ \A i \in 1..Len(state.drawn) :
                        state.drawn[i].op = "rect" => state.drawn[i].y >= state.y)

\* a configured section with merged rows has been drawn to its end
C21_Witness ==
    /\ pc = "returned"
    /\ state.fields = PDF_FIELDS("CUSTOMER INFORMATION")
    /\ state.data # <<>>
    /\ \E i \in 1..Len(state.drawn) : state.drawn[i] = Rect(40, run0.y - 20 - 2 * 20 - 40, 210, 40)
    /\ \E i \in 1..Len(state.drawn) : state.drawn[i] = Rect(40, run0.y - 20 - 4 * 20 - 40, 210, 40)

(***************************************************************************)
(* DataValidator.calculate_tax_and_total and the two formats of the         *)
(* generator (validator.py, invoice_gen.py).  A commission rate is a number  *)
(* of fils; the products and sums of the function are counted in            *)
(* hundredths of a fil, where they are whole numbers.                       *)
(***************************************************************************)
MaxRate == 40

\* the commission rates: 0.00 .. 0.40, 999.99, 1000.00, 123,456.78
TaxRates == 0..MaxRate \cup {99999, 100000, 12345678}

\* faulty variant: the total leaves the tax out
calculate_tax_and_total_noTax(commission_rate) ==
    LET tax_amount == commission_rate * VAT_RATE_PERCENT
    IN  [tax_amount |-> tax_amount, total_amount |-> commission_rate * 100]

calculate_tax_and_total(commission_rate) ==
    LET tax_amount == commission_rate * VAT_RATE_PERCENT
        total_amount == commission_rate * 100 + tax_amount
    IN  [tax_amount |-> tax_amount, total_amount |-> total_amount]

\* the fils the '.2f' of the format specification shows for a float: the
\* nearest; a value half way between two is not a binary float, and the float
\* nearest to it lies above it (up) or below it
FixedTwo(amount, up) ==
    (amount \div 100)
        + (IF amount % 100 > 50 \/ (amount % 100 = 50 /\ up) THEN 1 ELSE 0)

InitTax ==
    /\ state \in {[commission_rate |-> r, result |-> None, currency |-> None, number |-> None] :
                    r \in TaxRates}
    /\ run0 = state
    /\ pc = "calculate"
    /\ store = <<>>
    /\ calls = <<>>
    /\ artifacts = {}
    /\ outbox = {}
    /\ validation_result = None
    /\ last = None
    /\ clock = 0

CalculateTaxAndTotal ==
    /\ pc = "calculate"
    /\ state' = [state EXCEPT !.result = calculate_tax_and_total(state.commission_rate)]
    /\ pc' = "format"
    /\ UNCHANGED <<store, calls, artifacts, outbox, run0, validation_result, last, clock>>

\* format_currency(total_amount) and format_number(total_amount)
FormatTotal ==
    /\ pc = "format"
    /\ \E up \in BOOLEAN :
        \E shown \in {FixedTwo(state.result.total_amount, up)} :
            state' = [state EXCEPT !.currency = format_currency(shown),
                                   !.number = format_number(shown)]
    /\ pc' = "formatted"
    /\ UNCHANGED <<store, calls, artifacts, outbox, run0, validation_result, last, clock>>

NextTax == CalculateTaxAndTotal \/ FormatTotal

SpecTax == InitTax /\ [][NextTax]_vars

S_AED_1050 == <<"A", "E", "D", " ", "1", ",", "0", "5", "0", ".", "0", "0", "/", "-">>

\* C22: for every commission rate >= 0, the tax of calculate_tax_and_total is
\* rate * 5 / 100 and the total is rate + tax; for the rate 1000.00 the tax is
\* 50.00, the total 1050.00 and format_currency of the total is
\* 'AED 1,050.00/-'; format_number gives the text of format_currency without
\* its 'AED ' prefix.
C22_TaxTotalAndFormats ==
    /\ pc \in {"format", "formatted"} =>
          /\ state.result.tax_amount = state.commission_rate * 5
          /\ state.result.total_amount = state.commission_rate * 100 + state.result.tax_amount
          /\ state.commission_rate = 100000 =>
                state.result = [tax_amount |-> 50 * 10000, total_amount |-> 1050 * 10000]
    /\ pc = "formatted" =>
          /\ state.currency = <<"A", "E", "D", " ">> \o state.number
          /\ state.commission_rate = 100000 => state.currency = S_AED_1050

\* the rate 1000.00 has been taxed and its total formatted
C22_Witness ==
    pc = "formatted" /\ state.commission_rate = 100000 /\ state.number # None

(***************************************************************************)
(* The record the application runs the pipeline for                        *)
(***************************************************************************)
\* the step is handle_generate_invoice
GenerateRequested == pc = "idle" /\ last'.op = "generate"

\* C26: handle_generate_invoice calls run_workflow only when the file holds a
\* row for the invoice number of the record in memory and that row, as
\* get_invoice loads it, has the customer and invoice fields of the record in
\* memory; in every other case it reports 'Please submit record first' and
\* does not call run_workflow.
C26_RunOnlyForSubmittedRecord ==
    [][GenerateRequested =>
        LET found == get_invoice(store, state.customer["invoice_number"])
            submitted == found # None /\ SavedFields(found) = SavedFields(state)
        IN  IF submitted
            THEN pc' = "validate"
            ELSE pc' = "idle" /\ last'.result = "refused"]_vars

(***************************************************************************)
(* The stage results and the record they belong to                         *)
(***************************************************************************)
\* C28: while no handler runs, the invoice_creation_status held in memory is
\* that of the invoice number held in memory (its file is the PDF of that
\* number), and completed = true only if that number was saved or the
\* pipeline produced its PDF.
C28_ResultsBelongToHeldRecord ==
    pc = "idle" =>
        LET number == state.customer["invoice_number"]
            status == state.invoice_creation_status
            ofHeld == status # None /\ status.file_path = InvoicePath(number)
        IN  /\ status # None => ofHeld
            /\ state.completed => (RowsOf(store, number) # {} \/ ofHeld)

(***************************************************************************)
(* KYCManager: the KYC records file (kyc_manager.py, customer_config.py).   *)
(* `store` is data/kyc_records.csv, one record of cell texts per row.  The  *)
(* columns are customer_id, kyc_status and the three columns of             *)
(* check_duplicate; the other columns of KYC_CSV_HEADERS are texts handled  *)
(* like full_name.                                                          *)
(***************************************************************************)
KycColumns == {"customer_id", "kyc_status", "full_name", "date_of_birth", "passport_number"}

K_Pending == <<"P", "e", "n", "d", "i", "n", "g">>

K_Completed == <<"C", "o", "m", "p", "l", "e", "t", "e", "d">>

K_Rejected == <<"R", "e", "j", "e", "c", "t", "e", "d">>

KYC_STATUS_OPTIONS == <<K_Pending, K_Completed, K_Rejected>>

\* na_values=['nan', 'None', ''] of read_kyc_data
KycNaValues == {<<>>, S_nan, <<"N", "o", "n", "e">>}

\* KYCManager.read_kyc_data: every column is read as str, the cells of
\* na_values as NaN
read_kyc_data(file) ==
    [i \in 1..Len(file) |->
        [c \in KycColumns |-> IF file[i][c] \in KycNaValues THEN NaN ELSE file[i][c]]]

\* df.to_csv(KYC_DATA_FILE, index=False): NaN and None are written as ''
kyc_to_csv(df) ==
    [i \in 1..Len(df) |->
        [c \in KycColumns |-> IF df[i][c] \in {NaN, None} THEN <<>> ELSE df[i][c]]]

\* datetime.now().year
current_year == <<"2", "0", "2", "4">>

S_CUST == <<"C", "U", "S", "T">>

\* ord(c) as far as the order of the characters of an ID goes: digits before
\* upper-case letters
CharRank(c) ==
    IF c \in Digits THEN DigitVal(c)
    ELSE 10 + (CHOOSE n \in 1..26 : UpperChars[n] = c)

\* a < b for str
RECURSIVE StrLess(_, _)
StrLess(a, b) ==
    IF b = <<>> THEN FALSE
    ELSE IF a = <<>> THEN TRUE
    ELSE IF a[1] # b[1] THEN CharRank(a[1]) < CharRank(b[1])
    ELSE StrLess(Tail(a), Tail(b))

\* Series.max() of the customer_id cells of rows lo..hi that start with the
\* pattern; <<>> if there is none
RECURSIVE MaxId(_, _, _, _)
MaxId(df, pattern, lo, hi) ==
    IF lo > hi THEN <<>>
    ELSE IF lo = hi
    THEN (IF df[lo].customer_id # NaN /\ StartsWith(df[lo].customer_id, pattern)
          THEN df[lo].customer_id ELSE <<>>)
    ELSE LET mid == (lo + hi) \div 2
             a == MaxId(df, pattern, lo, mid)
             b == MaxId(df, pattern, mid + 1, hi)
         IN  IF StrLess(a, b) THEN b ELSE a

\* last_id[-3:]
LastThree(s) == SubSeq(s, Len(s) - 2, Len(s))

\* f"{sequence:03d}"
Format03d(n) == IF n < 1000 THEN Pad(n, 3) ELSE ToDigits(n)

\* KYCManager.generate_customer_id
generate_customer_id(df) ==
    LET current_year_pattern == S_CUST \o current_year
        last_id == MaxId(df, current_year_pattern, 1, Len(df))
    IN  IF df = <<>> \/ last_id = <<>>
        THEN current_year_pattern \o <<"0", "0", "1">>
        ELSE current_year_pattern \o Format03d(IntOf(LastThree(last_id)) + 1)

\* KYCManager.check_duplicate.  In the mask of lines 150-154 `&` binds
\* tighter than `==`: the expression is the chain
\*   names == (full_name.lower() & dates) == (date_of_birth & passports) == ...
\* whose first operand str & Series raises TypeError for a column that holds
\* a text; where it does not (no row, or only NaN), the chain takes the truth
\* value of a Series, which raises ValueError.  Either way the handler of
\* lines 161-163 sets the message and returns (False, None).
check_duplicate(df, full_name, date_of_birth, passport_number) ==
    [is_duplicate |-> FALSE, existing_record |-> None,
     message |-> <<"error", <<"Error checking duplicates: ">>>>]

\* faulty variant: the update writes the submitted fields into every row
UpdateRows_everyRow(df, kyc_data) ==
    [i \in 1..Len(df) |->
        [c \in KycColumns |-> IF c \in DOMAIN kyc_data THEN kyc_data[c] ELSE df[i][c]]]

\* df.loc[mask, column] = kyc_data[column], for every column of kyc_data
UpdateRows(df, kyc_data) ==
    [i \in 1..Len(df) |->
        IF df[i].customer_id = kyc_data.customer_id
        THEN [c \in KycColumns |-> IF c \in DOMAIN kyc_data THEN kyc_data[c] ELSE df[i][c]]
        ELSE df[i]]

\* KYCManager.save_kyc_record: what it returns, the file after it and the
\* message check_duplicate left in the session (io = "fail": the file cannot
\* be read or written)
save_kyc_record(file, kyc_data, is_update_mode, io) ==
    LET df == read_kyc_data(file)
        Result(success, message, written, note) ==
            [success |-> success, message |-> message, file |-> written, note |-> note]
    IN  IF io = "fail"
        THEN Result(FALSE, <<"Error saving KYC record: ">> \o IOError(<<"data/kyc_records.csv">>),
                    file, None)
        ELSE IF is_update_mode /\ kyc_data.customer_id # None
        THEN IF \A i \in 1..Len(df) : df[i].customer_id # kyc_data.customer_id
             THEN Result(FALSE, <<"Error: Customer ID ">> \o kyc_data.customer_id
                                    \o <<" not found">>, file, None)
             ELSE Result(TRUE, <<"Customer record updated successfully: ">>
                                    \o kyc_data.customer_id,
                         kyc_to_csv(UpdateRows(df, kyc_data)), None)
        ELSE LET dup == check_duplicate(df, kyc_data.full_name, kyc_data.date_of_birth,
                                        kyc_data.passport_number)
             IN  IF dup.is_duplicate
                 THEN Result(FALSE, <<"Duplicate record found with Customer ID: ">>
                                        \o dup.existing_record.customer_id, file, dup.message)
                 ELSE LET cust_id == generate_customer_id(df)
                          record == [kyc_data EXCEPT !.customer_id = cust_id,
                                                     !.kyc_status = K_Pending]
                      IN  Result(TRUE, <<"New KYC record created with Customer ID: ">> \o cust_id,
                                 kyc_to_csv(Append(df, record)), dup.message)

(***************************************************************************)
(* KYCManager.render_kyc_tab and render_kyc_form: the KYC tab.  `state` is  *)
(* st.session_state, `artifacts` the KYC applications generated, `last`     *)
(* what the last event did: the message it displayed, the exception it let  *)
(* out, the arguments and the result of its save_kyc_record.                *)
(***************************************************************************)
MaxRows == 2

D_1990 == <<"1", "9", "9", "0", "-", "0", "5", "-", "1", "7">>

\* what the user types into the form
KycForms ==
    [full_name : {<<"A", "l", "i">>, <<"A", "L", "I">>},
     date_of_birth : {D_1990},
     passport_number : {<<"P", "1">>}]

\* initialize_session_state
NewSession ==
    [editing_customer |-> None, show_form |-> FALSE, selected_customer_id |-> None,
     is_update_mode |-> FALSE, message |-> None]

KycEvent(op, shown, raised, call) ==
    [op |-> op, shown |-> shown, raised |-> raised, call |-> call]

InitKycTab ==
    /\ state = NewSession
    /\ store = <<>>
    /\ artifacts = {}
    /\ last = KycEvent("init", None, None, None)
    /\ pc = "tab"
    /\ calls = <<>>
    /\ outbox = {}
    /\ run0 = None
    /\ validation_result = None
    /\ clock = 0

\* the message area (lines 600-628): the message an event set before it, or
\* else the one an earlier run left, is displayed and cleared
Displayed(set) == IF set # None THEN set ELSE state.message

\* the Add button, disabled while the form is shown
KycAdd ==
    /\ pc = "tab"
    /\ ~state.show_form
    /\ state' = [state EXCEPT !.editing_customer = None, !.show_form = TRUE, !.message = None]
    /\ last' = KycEvent("add", Displayed(None), None, None)
    /\ UNCHANGED <<store, pc, calls, artifacts, outbox, run0, validation_result, clock>>

\* the Update button
KycUpdate ==
    /\ pc = "tab"
    /\ \E io \in IoOutcomes :
        LET df == read_kyc_data(store)
            hits == {i \in 1..Len(df) : df[i].customer_id = state.selected_customer_id}
            message ==
                IF state.selected_customer_id = None
                THEN <<"warning", <<"Please select a customer record to update">>>>
                ELSE IF io = "fail"
                THEN <<"error", <<"Error loading customer data: ">>>>
                ELSE IF hits = {}
                THEN <<"error", <<"Customer record not found">>>>
                ELSE <<"success", <<"Customer ">> \o state.selected_customer_id
                                     \o <<" loaded for update">>>>
        IN  /\ state' = IF state.selected_customer_id # None /\ io = "ok" /\ hits # {}
                        THEN [state EXCEPT
                                !.editing_customer = df[CHOOSE i \in hits : \A j \in hits : i <= j],
                                !.show_form = TRUE,
                                !.is_update_mode = TRUE,
                                !.message = None]
                        ELSE [state EXCEPT !.message = None]
            /\ last' = KycEvent("update", message, None, None)
    /\ UNCHANGED <<store, pc, calls, artifacts, outbox, run0, validation_result, clock>>

\* KYCManager.generate_kyc_application: the document of a record, or the
\* failure of the canvas
KycApplication(customer_data) == [customer_id |-> customer_data.customer_id]

\* line 581: the test of the status of the selected record
GenerationAllowed(customer_data) ==
    Lower(customer_data.kyc_status) = <<"p", "e", "n", "d", "i", "n", "g">>

\* the Generate KYC FORM button
KycGenerate ==
    /\ pc = "tab"
    /\ \E io \in IoOutcomes :
        LET df == read_kyc_data(store)
            hits == {i \in 1..Len(df) : df[i].customer_id = state.selected_customer_id}
            customer_data == df[CHOOSE i \in hits : \A j \in hits : i <= j]
        IN  IF state.selected_customer_id = None
            THEN /\ last' = KycEvent("generate",
                        <<"warning", <<"Please select a customer record to generate KYC">>>>,
                        None, None)
                 /\ artifacts' = artifacts
            ELSE IF hits = {}
            THEN /\ last' = KycEvent("generate", Displayed(None),
                                     <<"IndexError: single positional indexer is out-of-bounds">>, None)
                 /\ artifacts' = artifacts
            ELSE IF ~GenerationAllowed(customer_data)
            THEN /\ last' = KycEvent("generate",
                        <<"error", <<"KYC FORM generation is only allowed for completed applications">>>>,
                        None, customer_data)
                 /\ artifacts' = artifacts
            ELSE IF io = "fail"
            THEN /\ last' = KycEvent("generate", <<"error", <<"Error generating PDF: ">>>>,
                                     None, customer_data)
                 /\ artifacts' = artifacts
            ELSE /\ last' = KycEvent("generate", <<"success", <<"PDF generated successfully: ">>>>,
                                     None, customer_data)
                 /\ artifacts' = artifacts \cup {KycApplication(customer_data)}
    /\ state' = [state EXCEPT !.message = None]
    /\ UNCHANGED <<store, pc, calls, outbox, run0, validation_result, clock>>

\* the Reset button
KycReset ==
    /\ pc = "tab"
    /\ state' = [state EXCEPT !.show_form = FALSE, !.editing_customer = None,
                              !.selected_customer_id = None, !.message = None]
    /\ last' = KycEvent("reset", None, None, None)
    /\ UNCHANGED <<store, pc, calls, artifacts, outbox, run0, validation_result, clock>>

\* a search and a choice in the list of its results (lines 634-660), offered
\* while the form is not shown
KycSelect ==
    /\ pc = "tab"
    /\ ~state.show_form
    /\ \E i \in 1..Len(store) :
        state' = [state EXCEPT !.selected_customer_id = read_kyc_data(store)[i].customer_id,
                               !.message = None]
    /\ last' = KycEvent("select", Displayed(None), None, None)
    /\ UNCHANGED <<store, pc, calls, artifacts, outbox, run0, validation_result, clock>>

\* lines 446-493: the record the form submits
KycData(customer_id, is_update_mode, kyc_status, form) ==
    [customer_id |-> IF is_update_mode THEN customer_id ELSE None,
     kyc_status |-> IF customer_id # None THEN kyc_status ELSE K_Pending,
     full_name |-> form.full_name,
     date_of_birth |-> form.date_of_birth,
     passport_number |-> form.passport_number]

\* render_kyc_form, lines 441-506: the Submit KYC Application button
KycSubmit ==
    /\ pc = "tab"
    /\ state.show_form
    /\ \E declaration_accepted \in BOOLEAN :
        LET customer_id == IF state.editing_customer # None
                           THEN state.editing_customer.customer_id ELSE None
        IN  IF ~declaration_accepted
            THEN /\ state' = [state EXCEPT
                        !.message = <<"error", <<"Please accept the declaration to proceed">>>>]
                 /\ last' = KycEvent("submit", Displayed(None), None, None)
                 /\ store' = store
            ELSE IF state.is_update_mode /\ customer_id = None
            THEN \* line 493 reads kyc_status, which line 238 did not assign
                 /\ state' = [state EXCEPT !.message = None]
                 /\ last' = KycEvent("submit", Displayed(None),
                        <<"UnboundLocalError: kyc_status">>, None)
                 /\ store' = store
            ELSE /\ state.is_update_mode \/ Len(store) < MaxRows
                 /\ \E form \in KycForms, io \in IoOutcomes,
                       option \in (IF customer_id # None THEN 1..Len(KYC_STATUS_OPTIONS) ELSE {1}) :
                    \E kyc_data \in {KycData(customer_id, state.is_update_mode,
                                             KYC_STATUS_OPTIONS[option], form)} :
                    \E r \in {save_kyc_record(store, kyc_data, state.is_update_mode, io)} :
                        /\ store' = r.file
                        /\ state' =
                            IF r.success
                            THEN [state EXCEPT !.show_form = FALSE, !.editing_customer = None,
                                               !.is_update_mode = FALSE,
                                               !.selected_customer_id = None, !.message = None]
                            ELSE [state EXCEPT !.message = <<"error", r.message>>]
                        /\ last' = KycEvent("submit",
                                IF r.success THEN <<"success", r.message>> ELSE Displayed(None),
                                None,
                                [kyc_data |-> kyc_data, is_update_mode |-> state.is_update_mode,
                                 success |-> r.success, message |-> r.message])
    /\ UNCHANGED <<pc, calls, artifacts, outbox, run0, validation_result, clock>>

NextKycTab == KycAdd \/ KycUpdate \/ KycGenerate \/ KycReset \/ KycSelect \/ KycSubmit

SpecKycTab == InitKycTab /\ [][NextKycTab]_vars

\* the record of the file that the selected customer ID names
SelectedRecord ==
    LET df == read_kyc_data(store)
    IN  df[CHOOSE i \in 1..Len(df) :
              /\ df[i].customer_id = state.selected_customer_id
              /\ \A j \in 1..(i - 1) : df[j].customer_id # state.selected_customer_id]

\* the step is the Generate KYC FORM button with a record selected
GenerateKycRequested ==
    pc = "tab" /\ last'.op = "generate" /\ state.selected_customer_id # None

\* C23: the Generate KYC FORM button produces a KYC application only when the
\* kyc_status of the selected record is 'Completed'; for a selected record of
\* any other status it produces none and displays the error 'KYC FORM
\* generation is only allowed for completed applications'.
C23_OnlyCompletedGetKycForm ==
    [][GenerateKycRequested =>
        /\ last'.shown[1] = "success" => SelectedRecord.kyc_status = K_Completed
        /\ SelectedRecord.kyc_status # K_Completed =>
              /\ artifacts' = artifacts
              /\ last'.shown = <<"error",
                    <<"KYC FORM generation is only allowed for completed applications">>>>]_vars

\* the (name, date of birth, passport) triple of a row, as check_duplicate
\* compares it
Triple(row) == <<Lower(row.full_name), row.date_of_birth, Lower(row.passport_number)>>

\* C24: a save_kyc_record of a new record whose triple is that of a row of
\* the file returns failure with 'Duplicate record found' (or, when the file
\* cannot be read, 'Error saving KYC record') and adds no row; the file never
\* holds two rows of one triple.
C24_NoDuplicateTriple ==
    /\ [](\A i, j \in 1..Len(store) : Triple(store[i]) = Triple(store[j]) => i = j)
    /\ [][(pc = "tab" /\ last'.op = "submit" /\ last'.call # None
            /\ ~last'.call.is_update_mode
            /\ \E i \in 1..Len(store) : Triple(store[i]) = Triple(last'.call.kyc_data)) =>
                /\ ~last'.call.success
                /\ \/ StartsWith(last'.call.message, <<"Duplicate record found with Customer ID: ">>)
                   \/ StartsWith(last'.call.message, <<"Error saving KYC record: ">>)
                /\ store' = store]_vars

\* C27: in the session state of the KYC tab, is_update_mode = true implies
\* that the form is shown and editing_customer is a loaded record with a
\* customer_id; a form submitted while is_update_mode is true carries a
\* customer_id and a kyc_status (the handler lets no exception out); a form
\* opened with Add and submitted with success adds a row to the file.
C27_UpdateModeHasLoadedRecord ==
    /\ [](pc = "tab" /\ state.is_update_mode =>
            /\ state.show_form
            /\ state.editing_customer # None
            /\ state.editing_customer.customer_id \notin {None, NaN})
    /\ [][(pc = "tab" /\ last'.op = "submit" /\ state.is_update_mode) =>
            /\ last'.raised = None
            /\ last'.call # None => last'.call.kyc_data.customer_id # None]_vars
    /\ [][(pc = "tab" /\ last'.op = "submit" /\ state.editing_customer = None
            /\ last'.call # None /\ last'.call.success) =>
                Len(store') = Len(store) + 1]_vars

(***************************************************************************)
(* The customer IDs of a year.  The file starts empty or with the 997 rows  *)
(* that 997 new records leave in it, and new records are saved.             *)
(***************************************************************************)
MaxSaves == 5

IdStarts == {0, 997}

\* the file after n new records of one year, n <= 999: the IDs 001 .. n
FileAfter(n) ==
    [i \in 1..n |->
        [customer_id |-> S_CUST \o current_year \o Pad(i, 3),
         kyc_status |-> K_Pending,
         full_name |-> <<"A", "l", "i">>,
         date_of_birth |-> D_1990,
         passport_number |-> <<"P", "1">>]]

InitCustomerId ==
    /\ store \in {FileAfter(n) : n \in IdStarts}
    /\ state = NewSession
    /\ run0 = Len(store)
    /\ artifacts = {}
    /\ last = KycEvent("init", None, None, None)
    /\ pc = "tab"
    /\ calls = <<>>
    /\ outbox = {}
    /\ validation_result = None
    /\ clock = 0

\* Add, then the form submitted with the declaration accepted
SaveNewKycRecord ==
    /\ pc = "tab"
    /\ Len(store) < run0 + MaxSaves
    /\ \E form \in KycForms :
        \E r \in {save_kyc_record(store, KycData(None, FALSE, K_Pending, form), FALSE, "ok")} :
            /\ store' = r.file
            /\ last' = KycEvent("submit", <<"success", r.message>>, None, None)
    /\ UNCHANGED <<state, pc, calls, artifacts, outbox, run0, validation_result, clock>>

SpecCustomerId == InitCustomerId /\ [][SaveNewKycRecord]_vars

\* the sequence number an ID of the form CUST + year + digits ends with
SequenceOf(customer_id) == IntOf(SliceFrom(customer_id, 8))

\* C25: the customer ID a new record is saved with is 'CUST', the year and
\* three digits, its sequence is one above the highest sequence the file
\* holds for the year (001 in an empty file), and no row of the file had
\* that ID, however many records the year has.
C25_CustomerIdsSequentialUnique ==
    [][store' # store =>
        LET customer_id == store'[Len(store')].customer_id
        IN  /\ Len(store') = Len(store) + 1
            /\ Len(customer_id) = 11
            /\ StartsWith(customer_id, S_CUST \o current_year)
            /\ IsDigitStr(SliceFrom(customer_id, 8))
            /\ \A i \in 1..Len(store) :
                  /\ store[i].customer_id # customer_id
                  /\ SequenceOf(store[i].customer_id) < SequenceOf(customer_id)
            /\ IF store = <<>> THEN SequenceOf(customer_id) = 1
               ELSE \E i \in 1..Len(store) :
                       SequenceOf(store[i].customer_id) + 1 = SequenceOf(customer_id)]_vars

\* the part of C25 that holds past 999 as well: the IDs of the first 999
\* records of a year
C25_UniqueUpTo999 ==
    [][(store' # store /\ Len(store) < 999) =>
        LET customer_id == store'[Len(store')].customer_id
        IN  /\ Len(customer_id) = 11
            /\ \A i \in 1..Len(store) : store[i].customer_id # customer_id
            /\ SequenceOf(customer_id) = Len(store) + 1]_vars

(***************************************************************************)
(* KYCManager.save_kyc_record called on the files new records leave: rows   *)
(* with the IDs 001, 002, ... of the year, any status, any form values.     *)
(***************************************************************************)
KycIds == {S_CUST \o current_year \o Pad(n, 3) : n \in 1..(MaxRows + 1)}

KycFiles ==
    UNION {[1..n -> [kyc_status : {K_Pending, K_Completed, K_Rejected},
                     full_name : {f.full_name : f \in KycForms},
                     date_of_birth : {f.date_of_birth : f \in KycForms},
                     passport_number : {f.passport_number : f \in KycForms}]]
           : n \in 0..MaxRows}

InitKycSave ==
    /\ \E rows \in KycFiles :
        store = [i \in 1..Len(rows) |->
                    [customer_id |-> S_CUST \o current_year \o Pad(i, 3),
                     kyc_status |-> rows[i].kyc_status,
                     full_name |-> rows[i].full_name,
                     date_of_birth |-> rows[i].date_of_birth,
                     passport_number |-> rows[i].passport_number]]
    /\ state = [NewSession EXCEPT !.is_update_mode = TRUE]
    /\ last = [op |-> "init", call |-> None, io |-> None, result |-> None]
    /\ pc = "save"
    /\ run0 = None
    /\ artifacts = {}
    /\ calls = <<>>
    /\ outbox = {}
    /\ validation_result = None
    /\ clock = 0

\* save_kyc_record(kyc_data) with is_update_mode set and a customer_id in
\* kyc_data, lines 172-183
SaveUpdate ==
    /\ pc = "save"
    /\ last.op = "init"
    /\ \E customer_id \in KycIds, form \in KycForms,
          kyc_status \in {K_Pending, K_Completed, K_Rejected}, io \in {"ok", "fail"} :
        LET kyc_data == KycData(customer_id, TRUE, kyc_status, form)
            r == save_kyc_record(store, kyc_data, state.is_update_mode, io)
        IN  /\ store' = r.file
            /\ last' = [op |-> "update", call |-> kyc_data, io |-> io,
                        result |-> <<r.success, r.message>>]
    /\ UNCHANGED <<state, pc, calls, artifacts, outbox, run0, validation_result, clock>>

SpecKycSave == InitKycSave /\ [][SaveUpdate]_vars

\* C30: an update-mode save of a file that can be read and written changes
\* only rows whose customer_id is the submitted one: the number of rows and
\* every other row, as read_kyc_data reads them, stay as they were and the
\* rows with the ID take the submitted values; when no row has the ID the
\* call returns failure with 'Error: Customer ID <id> not found' and the
\* file is exactly as it was.
C30_UpdateChangesOnlyItsRow ==
    [][(last'.op = "update" /\ last'.io = "ok") =>
        LET kyc_data == last'.call
            before == read_kyc_data(store)
            after == read_kyc_data(store')
        IN  IF \E i \in 1..Len(before) : before[i].customer_id = kyc_data.customer_id
            THEN /\ last'.result[1] = TRUE
                 /\ Len(after) = Len(before)
                 /\ \A i \in 1..Len(before) :
                       IF before[i].customer_id = kyc_data.customer_id
                       THEN after[i] = kyc_data
                       ELSE after[i] = before[i]
            ELSE /\ last'.result = <<FALSE, <<"Error: Customer ID ">> \o kyc_data.customer_id
                                                \o <<" not found">>>>
                 /\ store' = store]_vars

\* a stored row took the submitted values while another row of the file
\* holds other values
C30_Witness ==
    /\ last.op = "update"
    /\ last.io = "ok"
    /\ last.result[1] = TRUE
    /\ \E i, j \in 1..Len(store) :
        /\ store[i].customer_id = last.call.customer_id
        /\ store[i] = last.call
        /\ store[j].customer_id # last.call.customer_id
        /\ store[j].full_name # last.call.full_name
        /\ store[j].kyc_status # last.call.kyc_status

(***************************************************************************)
(* KYCManager.generate_kyc_application: the layout cursor y, counted from   *)
(* the top edge of the page (y = -60 is height-60), through the sections of *)
(* PDF_SECTIONS.  The declaration wraps into lineCount lines.               *)
(***************************************************************************)
MaxLines == 6

\* c.rect(40, height-750, 515, 690)
MainBorder == Rect(40, 0 - 750, 515, 690)

InitLayout ==
    /\ \E lineCount \in 1..MaxLines :
        state = [y |-> 0 - 60, section |-> 1, row |-> 0, lineCount |-> lineCount]
    /\ pc = "header"
    /\ store = <<>>
    /\ run0 = None
    /\ artifacts = {}
    /\ last = None
    /\ calls = <<>>
    /\ outbox = {}
    /\ validation_result = None
    /\ clock = 0

\* the rows a section draws below its header: one per field, or one per
\* pair of fields in the two-column section
SectionRows(section) ==
    IF section = "Customer Information" THEN (Len(PDF_FIELDS(section)) + 1) \div 2
    ELSE Len(PDF_FIELDS(section))

\* the section header: y -= 20 in _add_section and _add_declaration,
\* y -= 25 in _add_two_column_section
LayoutHeader ==
    /\ pc = "header"
    /\ LET section == PDF_SECTIONS[state.section]
       IN  /\ state' = [state EXCEPT
                !.y = IF section = "Customer Information" THEN @ - 25 ELSE @ - 20,
                !.row = 0]
           /\ pc' = IF section = "Declaration" THEN "text" ELSE "rows"
    /\ UNCHANGED <<store, calls, artifacts, outbox, run0, validation_result, last, clock>>

\* one row of fields: y -= 20
LayoutRow ==
    /\ pc = "rows"
    /\ state.row < SectionRows(PDF_SECTIONS[state.section])
    /\ state' = [state EXCEPT !.y = @ - 20, !.row = @ + 1]
    /\ UNCHANGED <<pc, store, calls, artifacts, outbox, run0, validation_result, last, clock>>

\* the section returns y and the loop of generate_kyc_application goes on
LayoutNextSection ==
    /\ pc = "rows"
    /\ state.row = SectionRows(PDF_SECTIONS[state.section])
    /\ state' = [state EXCEPT !.section = @ + 1]
    /\ pc' = "header"
    /\ UNCHANGED <<store, calls, artifacts, outbox, run0, validation_result, last, clock>>

\* the declaration text box: text_height = len(lines) * 15 + 10, y -= text_height
LayoutText ==
    /\ pc = "text"
    /\ state' = [state EXCEPT !.y = @ - (state.lineCount * 15 + 10), !.row = 0]
    /\ pc' = "signature"
    /\ UNCHANGED <<store, calls, artifacts, outbox, run0, validation_result, last, clock>>

\* one of the three signature fields: y -= 20
LayoutSignature ==
    /\ pc = "signature"
    /\ state.row < 3
    /\ state' = [state EXCEPT !.y = @ - 20, !.row = @ + 1]
    /\ UNCHANGED <<pc, store, calls, artifacts, outbox, run0, validation_result, last, clock>>

\* _add_declaration returns, the loop ends, c.save()
LayoutSave ==
    /\ pc = "signature"
    /\ state.row = 3
    /\ pc' = "saved"
    /\ UNCHANGED <<state, store, calls, artifacts, outbox, run0, validation_result, last, clock>>

NextLayout ==
    \/ LayoutHeader
    \/ LayoutRow
    \/ LayoutNextSection
    \/ LayoutText
    \/ LayoutSignature
    \/ LayoutSave

SpecLayout == InitLayout /\ [][NextLayout]_vars

\* C29: when the last section of the KYC application has been laid out the
\* cursor is at or above the bottom edge of the main border (height-750),
\* for every number of declaration lines from 1 up.
C29_CursorInsideMainBorder ==
    [](pc = "saved" => state.y >= MainBorder.y)

\* the cursor the sections above the declaration leave: height-665
C29_CursorBeforeDeclaration ==
    [](pc = "header" /\ PDF_SECTIONS[state.section] = "Declaration" => state.y = 0 - 665)

====
